---------------------------- MODULE Spec2Model ----------------------------
(***************************************************************************)
(* rockpi-quad-go: the button gesture decoder (internal/button/button.go)  *)
(* and the fan duty-cycle control loop (internal/fan/fan.go).              *)
(*                                                                         *)
(* Time in the decoder is counted in units of 10 ms: the 50 ms poll of     *)
(* waitForRelease is 5 units, the 200 ms idle wait is 20 units.  The       *)
(* decoder goroutine is taken to be scheduled promptly: time passes only   *)
(* while it is blocked in a select with no ready case.  A select with      *)
(* several ready cases picks any of them, as Go does.                      *)
(***************************************************************************)
EXTENDS Integers, Sequences, FiniteSets, TLC

VARIABLES
    \* ---- button: configuration (button.go:329-330)
    pressTime,      \* Controller.pressTime, in units of 10 ms
    twiceWindow,    \* Controller.twiceWindow, in units of 10 ms
    ctor,           \* what button.New was given and what it returned
    \* ---- button: environment
    cancelled,      \* ctx.Done() is closed
    btnDown,        \* the physical button is held
    presses,        \* falling edges produced so far
    \* ---- button: Controller
    eventChan,      \* Controller.eventChan, edges "F" / "R"
    pressChan,      \* Controller.pressChan, gestures
    pc,             \* the waiting point detectButtonEvent is blocked at
    idleT,          \* remaining time of the 200 ms timer of the idle wait
    pollT,          \* remaining time of the current 50 ms timer
    dl,             \* remaining time to checkDoubleClick's deadline
    held,           \* time the current press has lasted, capped above pressTime
    pass,           \* history of the current pass of detectButtonEvent
    \* ---- fan: configuration (config.FanConfig) and environment
    fanCfg,         \* [linear, tempDisks, shared, inversed]
    \* ---- fan: Controller (fan.go:21-30)
    lastCPUDC,      \* Controller.lastCPUDC, a fraction <<num, den>>
    lastDiskDC,     \* Controller.lastDiskDC
    lastTempAge,    \* whole seconds since Controller.lastTemp, capped
    cpuPWM,         \* Controller.cpuPWM: the CPU device
    diskPWM,        \* Controller.diskPWM: the disk device, or nil
    fanPc,          \* "wait": blocked on the ticker; "apply": inside update
    upd,            \* update's locals: cpuTemp, diskTemp, cpuDC, diskDC
    tick,           \* history of the last completed update
    lastSample,     \* history: what the last getMaxDiskTemp returned
    \* ---- fan: enable/disable toggle and speed query
    enabled,        \* the fan loop's Enabled/Disabled flag
    mu,             \* who holds the fan controller's lock
    hPc,            \* gesture handler: "idle" or "toggle" (inside ToggleFan)
    dPc,            \* display task: "idle" or "speeds" (inside GetFanSpeeds)
    speeds,         \* what the last GetFanSpeeds returned since the last Toggle
    forced,         \* history: a disabling Toggle ran and no tick wrote since
    \* ---- main: configuration (config.KeyConfig) and handleButtonEvents
    cfgKey,         \* [click, twice, press]: the configured action strings
    handler,        \* "sleep", "recv" (in the select) or "returned"
    buttonChan,     \* page-advance notifications queued for the display
    cmds,           \* external commands started and not yet ended, by kind
    disp,           \* history: the last gesture dispatched and its action
    looked,         \* history: the last call of getButtonAction on its own
    curve,          \* history: the last evaluation of the curve on its own
    \* ---- main: signal, wait group, owned hardware, display task
    sigPending,     \* a SIGINT/SIGTERM was delivered to sigCh
    mainPc,         \* "waitSig", "waitShutdown", "deferred" or "exited"
    done,           \* tasks that have called wg.Done
    open,           \* hardware resources not yet released, channels not closed
    oledPc,         \* display task: "run", "goodbye", "returned", "closed", "done";
                    \* "disabled" or "failed" when it was never started
    oledDev         \* the display device: closed, and what it was asked since

buttonVars == <<ctor, pressTime, twiceWindow, cancelled, btnDown, presses, eventChan,
                pressChan, pc, idleT, pollT, dl, held, pass>>

fanVars == <<fanCfg, lastCPUDC, lastDiskDC, lastTempAge, cpuPWM, diskPWM, fanPc, upd,
             tick, lastSample>>

toggleVars == <<enabled, mu, hPc, dPc, speeds, forced>>

handlerVars == <<cfgKey, handler, buttonChan, cmds, disp, looked, curve>>

mainVars == <<sigPending, mainPc, done, open, oledPc, oledDev>>

procVars == <<handlerVars, mainVars>>

vars == <<buttonVars, fanVars, toggleVars, procVars>>

----------------------------------------------------------------------------
(* Constants of the program and bounds of the model *)

Click == "click"
DoubleClick == "twice"
LongPress == "press"
NoEvent == ""

Falling == "F"
Rising == "R"

PollPeriod == 5
IdleTimeout == 20
EventChanCap == 10
PressChanCap == 10

\* long-press thresholds tried: 70 ms (no multiple of the poll) and 100 ms
PressTimes == {7, 10}
\* double-click windows tried: 40 ms
TwiceWindows == {4}
\* falling edges the environment produces in one run
MaxPresses == 3
\* falling edges produced in a run that fills the gesture queue
MaxQueuePresses == 11

----------------------------------------------------------------------------
(* button.New (button.go:335-420): the syslog connection, then the line     *)

\* the configured line: "" (no pin), not a number, or a line number
LineConfigs == {"", "x", "17"}

\* Controller.line: nil, or the requested line
NilLine == "nil"
RequestedLine == "line"

\* the error and the line of the controller New returns
New(syslogOK, lineCfg, requestOK) ==
    IF ~syslogOK THEN [err |-> TRUE, line |-> NilLine]
    ELSE IF lineCfg = "" THEN [err |-> FALSE, line |-> NilLine]
    ELSE IF lineCfg = "x" THEN [err |-> FALSE, line |-> NilLine]
    ELSE IF ~requestOK THEN [err |-> FALSE, line |-> NilLine]
    ELSE [err |-> FALSE, line |-> RequestedLine]

\* the inputs of New together with its result
Construct(syslogOK, lineCfg, requestOK) ==
    LET r == New(syslogOK, lineCfg, requestOK)
    IN  [syslogOK |-> syslogOK, lineCfg |-> lineCfg, requestOK |-> requestOK,
         err |-> r.err, line |-> r.line]

----------------------------------------------------------------------------
(* The history of one pass of detectButtonEvent, from the falling edge     *)
(* consumed in the idle wait to the return.                                *)

NoPass == [active |-> FALSE, hold |-> "none", hold2 |-> "none", second |-> FALSE,
           rel2 |-> FALSE,
           out |-> NoEvent, n |-> 0, done |-> FALSE, byCancel |-> FALSE,
           atDeadline |-> FALSE, released |-> FALSE]

NewPass == [NoPass EXCEPT !.active = TRUE]

\* how long the press lasted when its rising edge was consumed
HoldClass(h, pt) == IF h < pt THEN "short" ELSE IF h = pt THEN "exact" ELSE "long"

----------------------------------------------------------------------------
(* Controller.Run: the non-blocking send of a detected gesture *)

\* variant: the gesture is queued whatever the queue holds
Send_Unbounded(ch, event) == Append(ch, event)

\* variant: the gesture is put in front of the queued ones
Send_Front(ch, event) == IF Len(ch) < PressChanCap THEN <<event>> \o ch ELSE ch

Send(ch, event) == IF Len(ch) < PressChanCap THEN Append(ch, event) ELSE ch

\* the gpiocdev event handler installed by New: non-blocking send of an edge
EventHandler(ch, evt) == IF Len(ch) < EventChanCap THEN Append(ch, evt) ELSE ch

\* time.Since(pressStart) >= c.pressTime
LongPressDetected(h, pt) == h >= pt

\* what detectButtonEvent returns at each of its return statements
IdleCancelEvent == NoEvent
PressedCancelEvent == NoEvent
LongReleaseEvent == LongPress
LongCancelEvent == LongPress
\* variant: the timeout of checkDoubleClick returns no gesture
AwaitTimeoutEvent_None == NoEvent
AwaitTimeoutEvent == Click
AwaitCancelEvent == Click
\* variant: the second release is reported as a Click
SecondReleaseEvent_Click == Click
SecondReleaseEvent == DoubleClick
SecondCancelEvent == DoubleClick

\* drainEventChannel: receive until the channel is empty
\* variant: the queued edges are left in the channel
DrainEventChannel_Keep(ch) == ch

DrainEventChannel(ch) == <<>>

\* detectButtonEvent returns `event`; Run sends it unless it is "" and then
\* either calls detectButtonEvent again (next = "idle") or sees ctx.Done()
Return(event, next, byCancel, p) ==
    /\ pressChan' = IF event # NoEvent THEN Send(pressChan, event) ELSE pressChan
    /\ pc' = next
    /\ idleT' = IF next = "idle" THEN IdleTimeout ELSE 0
    /\ pollT' = 0
    /\ dl' = 0
    /\ held' = 0
    /\ pass' = IF p.active /\ ~p.done
               THEN [p EXCEPT !.out = event,
                              !.n = IF event # NoEvent THEN @ + 1 ELSE @,
                              !.done = TRUE,
                              !.byCancel = byCancel,
                              !.atDeadline = (dl = 0)]
               ELSE p

----------------------------------------------------------------------------
(* Environment: the button, the GPIO edge source, cancellation, time *)

\* the button goes down, at most `max` times in a run
PressUpTo(max) ==
    /\ ~btnDown
    /\ presses < max
    /\ btnDown' = TRUE
    /\ presses' = presses + 1
    /\ eventChan' = IF ctor.line = RequestedLine
                    THEN EventHandler(eventChan, Falling) ELSE eventChan
    /\ UNCHANGED <<pressTime, twiceWindow, cancelled, pressChan, pc, idleT, pollT,
                   dl, held, pass>>

Press == PressUpTo(MaxPresses)

\* one press at a time: the button goes down only while the decoder waits in
\* Idle with no edge queued, and nothing ever receives from pressChan
QueuePress ==
    /\ pc = "idle"
    /\ eventChan = <<>>
    /\ PressUpTo(MaxQueuePresses)

Release ==
    /\ btnDown
    /\ btnDown' = FALSE
    /\ eventChan' = IF ctor.line = RequestedLine
                    THEN EventHandler(eventChan, Rising) ELSE eventChan
    /\ UNCHANGED <<pressTime, twiceWindow, cancelled, presses, pressChan, pc, idleT,
                   pollT, dl, held, pass>>

Cancel ==
    /\ ~cancelled
    /\ cancelled' = TRUE
    /\ UNCHANGED <<pressTime, twiceWindow, btnDown, presses, eventChan, pressChan,
                   pc, idleT, pollT, dl, held, pass>>

\* 10 ms pass while the decoder is blocked: no edge queued, no timer due,
\* ctx not done
Tick ==
    /\ pc \in {"idle", "pressed", "longwait", "await", "second"}
    /\ ~cancelled
    /\ eventChan = <<>>
    /\ pc = "idle" => idleT > 0
    /\ pc \in {"pressed", "longwait", "second"} => pollT > 0
    /\ pc = "await" => dl > 0
    /\ idleT' = IF pc = "idle" THEN idleT - 1 ELSE idleT
    /\ pollT' = IF pc \in {"pressed", "longwait", "second"} THEN pollT - 1 ELSE pollT
    /\ dl' = IF pc = "await" THEN dl - 1 ELSE dl
    /\ held' = IF pc \in {"pressed", "longwait", "second"} /\ held <= pressTime
               THEN held + 1 ELSE held
    /\ UNCHANGED <<pressTime, twiceWindow, cancelled, btnDown, presses, eventChan,
                   pressChan, pc, pass>>

----------------------------------------------------------------------------
(* detectButtonEvent: the wait for a falling edge (button.go:452-466) *)

IdleEvent ==
    /\ pc = "idle"
    /\ eventChan # <<>>
    /\ eventChan' = Tail(eventChan)
    /\ IF Head(eventChan) = Falling
       THEN /\ pc' = "pressed"
            /\ held' = 0
            /\ pollT' = PollPeriod
            /\ idleT' = 0
            /\ pass' = NewPass
       ELSE /\ idleT' = IdleTimeout
            /\ UNCHANGED <<pc, held, pollT, pass>>
    /\ UNCHANGED <<pressTime, twiceWindow, cancelled, btnDown, presses, pressChan, dl>>

IdleTimeoutFires ==
    /\ pc = "idle"
    /\ idleT = 0
    /\ Return(NoEvent, IF cancelled THEN "stopped" ELSE "idle", FALSE, pass)
    /\ UNCHANGED <<pressTime, twiceWindow, cancelled, btnDown, presses, eventChan>>

IdleCancel ==
    /\ pc = "idle"
    /\ cancelled
    /\ Return(IdleCancelEvent, "stopped", TRUE, pass)
    /\ UNCHANGED <<pressTime, twiceWindow, cancelled, btnDown, presses, eventChan>>

(* waitForRelease (button.go:468-496) *)

PressedEvent ==
    /\ pc = "pressed"
    /\ eventChan # <<>>
    /\ eventChan' = Tail(eventChan)
    /\ IF Head(eventChan) = Rising
       THEN /\ pc' = "await"
            /\ dl' = twiceWindow
            /\ pollT' = 0
            /\ held' = 0
            /\ pass' = [pass EXCEPT !.hold = HoldClass(held, pressTime),
                                    !.released = TRUE]
       ELSE /\ pollT' = PollPeriod
            /\ UNCHANGED <<pc, dl, held, pass>>
    /\ UNCHANGED <<pressTime, twiceWindow, cancelled, btnDown, presses, pressChan, idleT>>

\* variant: LongPress is sent as soon as the hold reaches pressTime, and
\* again at the release
PressedPoll_Emits ==
    /\ pc = "pressed"
    /\ pollT = 0
    /\ pollT' = PollPeriod
    /\ pc' = IF LongPressDetected(held, pressTime) THEN "longwait" ELSE "pressed"
    /\ pressChan' = IF LongPressDetected(held, pressTime)
                    THEN Send(pressChan, LongPress) ELSE pressChan
    /\ UNCHANGED <<pressTime, twiceWindow, cancelled, btnDown, presses, eventChan,
                   idleT, dl, held, pass>>

PressedPoll ==
    /\ pc = "pressed"
    /\ pollT = 0
    /\ pollT' = PollPeriod
    /\ pc' = IF LongPressDetected(held, pressTime) THEN "longwait" ELSE "pressed"
    /\ UNCHANGED <<pressTime, twiceWindow, cancelled, btnDown, presses, eventChan,
                   pressChan, idleT, dl, held, pass>>

PressedCancel ==
    /\ pc = "pressed"
    /\ cancelled
    /\ Return(PressedCancelEvent, "stopped", TRUE, pass)
    /\ UNCHANGED <<pressTime, twiceWindow, cancelled, btnDown, presses, eventChan>>

(* the long-press wait for the release (button.go:482-493) *)

LongWaitEvent ==
    /\ pc = "longwait"
    /\ eventChan # <<>>
    /\ eventChan' = Tail(eventChan)
    /\ IF Head(eventChan) = Rising
       THEN Return(LongReleaseEvent, "idle", FALSE,
                   [pass EXCEPT !.hold = HoldClass(held, pressTime),
                                !.released = TRUE])
       ELSE /\ pollT' = PollPeriod
            /\ UNCHANGED <<pc, pressChan, idleT, dl, held, pass>>
    /\ UNCHANGED <<pressTime, twiceWindow, cancelled, btnDown, presses>>

LongWaitPoll ==
    /\ pc = "longwait"
    /\ pollT = 0
    /\ pollT' = PollPeriod
    /\ UNCHANGED <<pressTime, twiceWindow, cancelled, btnDown, presses, eventChan,
                   pressChan, pc, idleT, dl, held, pass>>

LongWaitCancel ==
    /\ pc = "longwait"
    /\ cancelled
    /\ Return(LongCancelEvent, "stopped", TRUE, pass)
    /\ UNCHANGED <<pressTime, twiceWindow, cancelled, btnDown, presses, eventChan>>

(* checkDoubleClick (button.go:498-531) *)

AwaitEvent ==
    /\ pc = "await"
    /\ eventChan # <<>>
    /\ IF Head(eventChan) = Falling
       THEN /\ eventChan' = Tail(eventChan)
            /\ pc' = "second"
            /\ pollT' = PollPeriod
            /\ dl' = 0
            /\ pass' = [pass EXCEPT !.second = TRUE]
            /\ UNCHANGED <<pressChan, idleT, held>>
       ELSE IF dl > 0
            THEN \* a rising edge is ignored; the loop condition still holds
                 /\ eventChan' = Tail(eventChan)
                 /\ UNCHANGED <<pc, pollT, dl, pass, pressChan, idleT, held>>
            ELSE \* time.Now().Before(deadline) fails after the receive
                 /\ eventChan' = Tail(eventChan)
                 /\ Return(AwaitTimeoutEvent, "idle", FALSE, pass)
    /\ UNCHANGED <<pressTime, twiceWindow, cancelled, btnDown, presses>>

\* variant: the double-click window has no timer
AwaitTimeout_Never ==
    /\ pc = "await"
    /\ dl = 0
    /\ FALSE
    /\ Return(AwaitTimeoutEvent, "idle", FALSE, pass)
    /\ UNCHANGED <<pressTime, twiceWindow, cancelled, btnDown, presses, eventChan>>

AwaitTimeout ==
    /\ pc = "await"
    /\ dl = 0
    /\ Return(AwaitTimeoutEvent, "idle", FALSE, pass)
    /\ UNCHANGED <<pressTime, twiceWindow, cancelled, btnDown, presses, eventChan>>

AwaitCancel ==
    /\ pc = "await"
    /\ cancelled
    /\ Return(AwaitCancelEvent, "stopped", TRUE, pass)
    /\ UNCHANGED <<pressTime, twiceWindow, cancelled, btnDown, presses, eventChan>>

(* the wait for the second release (button.go:508-521) *)

SecondEvent ==
    /\ pc = "second"
    /\ eventChan # <<>>
    /\ IF Head(eventChan) = Rising
       THEN /\ eventChan' = DrainEventChannel(Tail(eventChan))
            /\ Return(SecondReleaseEvent, "idle", FALSE,
                      [pass EXCEPT !.rel2 = TRUE,
                                   !.hold2 = HoldClass(held, pressTime)])
       ELSE /\ eventChan' = Tail(eventChan)
            /\ pollT' = PollPeriod
            /\ UNCHANGED <<pc, pressChan, idleT, dl, held, pass>>
    /\ UNCHANGED <<pressTime, twiceWindow, cancelled, btnDown, presses>>

\* variant: the second hold is measured against pressTime as the first is
SecondPoll_LongPress ==
    /\ pc = "second"
    /\ pollT = 0
    /\ IF LongPressDetected(held, pressTime)
       THEN /\ Return(LongPress, "idle", FALSE, pass)
            /\ UNCHANGED <<pressTime, twiceWindow, cancelled, btnDown, presses,
                           eventChan>>
       ELSE /\ pollT' = PollPeriod
            /\ UNCHANGED <<pressTime, twiceWindow, cancelled, btnDown, presses,
                           eventChan, pressChan, pc, idleT, dl, held, pass>>

SecondPoll ==
    /\ pc = "second"
    /\ pollT = 0
    /\ pollT' = PollPeriod
    /\ UNCHANGED <<pressTime, twiceWindow, cancelled, btnDown, presses, eventChan,
                   pressChan, pc, idleT, dl, held, pass>>

\* variant: the wait for the second release does not look at ctx
SecondCancel_Never ==
    /\ pc = "second"
    /\ cancelled
    /\ FALSE
    /\ UNCHANGED <<pressTime, twiceWindow, cancelled, btnDown, presses, eventChan,
                   pressChan, pc, idleT, pollT, dl, held, pass>>

SecondCancel ==
    /\ pc = "second"
    /\ cancelled
    /\ Return(SecondCancelEvent, "stopped", TRUE,
              [pass EXCEPT !.hold2 = HoldClass(held, pressTime)])
    /\ UNCHANGED <<pressTime, twiceWindow, cancelled, btnDown, presses, eventChan>>

\* variant: Run without a line never returns
NoLineCancel_Never ==
    /\ pc = "noline"
    /\ cancelled
    /\ FALSE
    /\ UNCHANGED <<pressTime, twiceWindow, cancelled, btnDown, presses, eventChan,
                   pressChan, pc, idleT, pollT, dl, held, pass>>

\* Run without a line: <-ctx.Done() and return (button.go:424-428)
NoLineCancel ==
    /\ pc = "noline"
    /\ cancelled
    /\ pc' = "stopped"
    /\ UNCHANGED <<pressTime, twiceWindow, cancelled, btnDown, presses, eventChan,
                   pressChan, idleT, pollT, dl, held, pass>>

----------------------------------------------------------------------------
(* button.New returned: with a line the channels are made and the startup  *)
(* noise is drained; without one Run only waits for ctx; on an error no    *)
(* controller exists and Run is never started (main.go:150-160)            *)

ButtonInit ==
    /\ ctor \in {Construct(s, l, r) : s \in BOOLEAN, l \in LineConfigs, r \in BOOLEAN}
    /\ pressTime \in PressTimes
    /\ twiceWindow \in TwiceWindows
    /\ cancelled = FALSE
    /\ btnDown = FALSE
    /\ presses = 0
    /\ eventChan = <<>>
    /\ pressChan = <<>>
    /\ pc = IF ctor.err THEN "none"
            ELSE IF ctor.line = NilLine THEN "noline" ELSE "idle"
    /\ idleT = IF ctor.line = RequestedLine THEN IdleTimeout ELSE 0
    /\ pollT = 0
    /\ dl = 0
    /\ held = 0
    /\ pass = NoPass

----------------------------------------------------------------------------
(* Fractions: duty cycles are float64 in the program and exact fractions   *)
(* <<num, den>> in lowest terms, den > 0, here.                            *)

RECURSIVE GCD(_, _)
GCD(a, b) == IF b = 0 THEN a ELSE GCD(b, a % b)

Abs(x) == IF x < 0 THEN -x ELSE x

Frac(n, d) ==
    LET g == GCD(Abs(n), Abs(d))
        sgn == IF d < 0 THEN -1 ELSE 1
    IN  IF n = 0 THEN <<0, 1>> ELSE <<(sgn * n) \div g, (sgn * d) \div g>>

FAdd(x, y) == Frac(x[1] * y[2] + y[1] * x[2], x[2] * y[2])
FSub(x, y) == Frac(x[1] * y[2] - y[1] * x[2], x[2] * y[2])
FMul(x, y) == Frac(x[1] * y[1], x[2] * y[2])
FLess(x, y) == x[1] * y[2] < y[1] * x[2]
FLeq(x, y) == x[1] * y[2] <= y[1] * x[2]

Zero == <<0, 1>>
One == <<1, 1>>
Percent(n) == Frac(n, 100)

----------------------------------------------------------------------------
(* Fan: constants of the program *)

\* MinDutyCycle = 0.07
MinDutyCycle == Percent(7)

\* the disk temperature is read when time.Since(lastTemp) > 10 s
RefreshInterval == 10

\* lv0, lv1, lv2, lv3 and the maximum temperature of each channel
\* (config.go:104-120: the defaults)
LevelsC == <<35, 40, 45, 50, 80>>
LevelsF == <<35, 40, 45, 50, 70>>

\* variant: the duty cycles at lv1 and lv2 are exchanged
DutyCycles_Unsorted == <<Percent(1), Percent(50), Percent(25), Percent(75), One>>

\* dutyCycles of linearInterpolate
DutyCycles == <<Percent(1), Percent(25), Percent(50), Percent(75), One>>

\* sensor readings tried, in degrees; "fail": the file is unreadable
ReadOK(t) == <<"ok", t>>
ReadFail == <<"fail", 0>>
CPUReadings == {ReadFail} \cup {ReadOK(t) : t \in {35, 42, 80}}
DiskReadings == {ReadFail} \cup {ReadOK(t) : t \in {36, 45}}

\* a PWM device: nil or not, and the duty cycle it was last set to, if any
NilDevice == [dev |-> FALSE, set |-> FALSE, duty |-> Zero]
NewDevice == [dev |-> TRUE, set |-> FALSE, duty |-> Zero]

\* variant: a disk device is created whatever the channel numbers
DiskDevice_Separate(shared) == NewDevice

\* New: the disk device is created only if TBPWMChannel differs from
\* CPUPWMChannel (fan.go:50-61)
DiskDevice(shared) == IF shared THEN NilDevice ELSE NewDevice
SetDutyCycle(d, dc) == [d EXCEPT !.set = TRUE, !.duty = dc]

----------------------------------------------------------------------------
(* Fan: the duty-cycle curve (fan.go:158-203) *)

RECURSIVE Interpolate_NoRatio(_, _, _)
\* variant: the duty cycle of the lower control point, without the ratio
Interpolate_NoRatio(temp, levels, i) ==
    IF i > Len(levels) - 1 THEN One
    ELSE IF temp >= levels[i] /\ temp < levels[i + 1]
         THEN DutyCycles[i]
         ELSE Interpolate_NoRatio(temp, levels, i + 1)

RECURSIVE Interpolate(_, _, _)
\* the loop of linearInterpolate from index i on
Interpolate(temp, levels, i) ==
    IF i > Len(levels) - 1 THEN One
    ELSE IF temp >= levels[i] /\ temp < levels[i + 1]
         THEN FAdd(DutyCycles[i],
                   FMul(Frac(temp - levels[i], levels[i + 1] - levels[i]),
                        FSub(DutyCycles[i + 1], DutyCycles[i])))
         ELSE Interpolate(temp, levels, i + 1)

linearInterpolate(temp, levels) ==
    IF temp < levels[1] THEN Zero ELSE Interpolate(temp, levels, 1)

\* variant: a temperature equal to a breakpoint belongs to the lower tier
stepDutyCycle_Inclusive(temp, levels) ==
    IF temp <= levels[1] THEN Zero
    ELSE IF temp <= levels[2] THEN Percent(25)
    ELSE IF temp <= levels[3] THEN Percent(50)
    ELSE IF temp <= levels[4] THEN Percent(75)
    ELSE One

stepDutyCycle(temp, levels) ==
    IF temp < levels[1] THEN Zero
    ELSE IF temp < levels[2] THEN Percent(25)
    ELSE IF temp < levels[3] THEN Percent(50)
    ELSE IF temp < levels[4] THEN Percent(75)
    ELSE One

calculateDutyCycle(temp, key, linear) ==
    LET levels == IF key = "c" THEN LevelsC ELSE LevelsF
    IN  IF linear THEN linearInterpolate(temp, levels) ELSE stepDutyCycle(temp, levels)

\* breakpoints tried when the curve is evaluated on its own: every value of
\* 1..MaxLevel at each of lv0, lv1, lv2, lv3 and the maximum, in any order,
\* and the defaults of the two channels
MaxLevel == 5

\* and increasing breakpoints from 1 or 2 on, 1 to MaxGap apart
MaxGap == 3
SpacedLevels ==
    {<<a, a + b, a + b + c, a + b + c + d, a + b + c + d + e>> :
        a \in 1..2, b \in 1..MaxGap, c \in 1..MaxGap, d \in 1..MaxGap, e \in 1..MaxGap}

CurveLevels == [1..5 -> 1..MaxLevel] \cup SpacedLevels \cup {LevelsC, LevelsF}

\* temperatures tried: from below the least to above the greatest breakpoint
CurveTemps ==
    0..(3 + 4 * MaxGap) \cup {30, 35, 37, 40, 42, 45, 50, 60, 70, 80, 90}

NoCurve == [valid |-> FALSE, linear |-> FALSE, temp |-> 0, levels |-> LevelsC,
            out |-> Zero]

\* calculateDutyCycle called on its own, with the configuration's breakpoints
\* and mode and a temperature
Curve(temp, levels, linear) ==
    /\ curve' = [valid |-> TRUE, linear |-> linear, temp |-> temp, levels |-> levels,
                 out |-> IF linear THEN linearInterpolate(temp, levels)
                         ELSE stepDutyCycle(temp, levels)]
    /\ UNCHANGED <<cfgKey, handler, buttonChan, cmds, disp, looked, mainVars>>

\* variant: no minimum is applied
ApplyMinimum_None(dc) == dc

\* "Apply minimum duty cycle threshold" (fan.go:96-102)
ApplyMinimum(dc) == IF FLess(Zero, dc) /\ FLess(dc, MinDutyCycle) THEN MinDutyCycle ELSE dc

\* variant: a sensor file that cannot be read yields a high temperature
Reading_High(r) == IF r[1] = "fail" THEN 100 ELSE r[2]

\* a sensor file that cannot be read or parsed yields 0
Reading(r) == IF r[1] = "fail" THEN 0 ELSE r[2]

\* variant: the disk temperature is read on every tick
DiskReadDue_Always(age, jitter) == TRUE

\* time.Since(c.lastTemp) > 10*time.Second, at a tick `age` whole seconds
\* after lastTemp was set; at exactly 10 ticks the jitter of the ticker decides
DiskReadDue(age, jitter) == age > RefreshInterval \/ (age = RefreshInterval /\ jitter)

----------------------------------------------------------------------------
(* Fan: Controller.update (fan.go:90-128), run by Run on each tick *)

\* temperatures used, whether each computed duty cycle differed from the
\* last-applied one, whether SetDutyCycle was called on each device and failed,
\* whether the temperatures equal the previous tick's, whether every write of
\* the previous tick succeeded, how often each sensor was read, and, when the
\* disk sensor was read, the ticks since lastTemp and whether the 10th came
\* late, and which writes of the previous tick failed
NoTick == [valid |-> FALSE, cpuTemp |-> 0, diskTemp |-> 0,
           changedCPU |-> FALSE, changedDisk |-> FALSE,
           wroteCPU |-> FALSE, wroteDisk |-> FALSE, cpuFail |-> FALSE,
           diskFail |-> FALSE, same |-> FALSE, prevOK |-> FALSE,
           cpuReads |-> 0, diskReads |-> 0, age |-> 0, late |-> FALSE,
           prevCPUFail |-> FALSE, prevDiskFail |-> FALSE]

NoUpd == [cpuRead |-> "ok", cpuTemp |-> 0, diskTemp |-> 0, cpuDC |-> Zero,
          diskDC |-> Zero,
          sampled |-> FALSE, age |-> 0, late |-> FALSE]

\* variant: the device is written on every tick
DutyChanged_Always(dc, last) == TRUE

\* "Update PWM if changed": cpuDC != c.lastCPUDC
DutyChanged(dc, last) == dc # last

\* variant: the computed value is recorded even when the write failed
LastApplied_Optimistic(write, err, dc, last) == IF write THEN dc ELSE last

\* c.lastCPUDC = cpuDC is reached only past a successful write (fan.go:105-110)
LastApplied(write, err, dc, last) == IF write /\ ~err THEN dc ELSE last

\* whether the tick runs update at all: the loop computes only while Enabled
TickEnabled == enabled

\* getTemperatures and the two duty cycles (fan.go:91-102)
UpdateBegin(cpuRead, diskRead, jitter) ==
    /\ fanPc = "wait"
    /\ ~cancelled
    /\ TickEnabled
    /\ LET age == IF lastTempAge > RefreshInterval THEN lastTempAge ELSE lastTempAge + 1
           due == fanCfg.tempDisks /\ DiskReadDue(age, jitter)
           cpu == Reading(cpuRead)
           disk == IF due THEN Reading(diskRead) ELSE 0
       IN  /\ lastTempAge' = IF due THEN 0 ELSE age
           /\ lastSample' = IF due THEN disk ELSE lastSample
           /\ upd' = [cpuRead |-> cpuRead[1], cpuTemp |-> cpu, diskTemp |-> disk,
                      cpuDC |-> ApplyMinimum(calculateDutyCycle(cpu, "c", fanCfg.linear)),
                      diskDC |-> ApplyMinimum(calculateDutyCycle(disk, "f", fanCfg.linear)),
                      sampled |-> due, age |-> IF due THEN age ELSE 0,
                      late |-> due /\ jitter /\ age = RefreshInterval]
    /\ fanPc' = "apply"
    /\ UNCHANGED <<fanCfg, lastCPUDC, lastDiskDC, cpuPWM, diskPWM, tick>>

\* a tick while Disabled computes and writes nothing
UpdateSkipped ==
    /\ fanPc = "wait"
    /\ ~cancelled
    /\ ~TickEnabled
    /\ lastTempAge' = IF lastTempAge > RefreshInterval THEN lastTempAge ELSE lastTempAge + 1
    /\ UNCHANGED <<fanCfg, lastCPUDC, lastDiskDC, cpuPWM, diskPWM, fanPc, upd, tick,
                   lastSample>>

\* "Update PWM if changed" (fan.go:104-119); cpuOK, diskOK: whether
\* SetDutyCycle succeeds on each device
\* variant: update goes on to the disk channel after a failed CPU write
EndsUpdate_Never(err) == FALSE

\* if err := c.cpuPWM.SetDutyCycle(cpuDC); err != nil { return err }
EndsUpdate(err) == err

UpdateApply(cpuOK, diskOK) ==
    /\ fanPc = "apply"
    /\ LET writeCPU == DutyChanged(upd.cpuDC, lastCPUDC)
           cpuErr == writeCPU /\ ~cpuOK
           writeDisk == /\ ~EndsUpdate(cpuErr)
                        /\ diskPWM.dev
                        /\ DutyChanged(upd.diskDC, lastDiskDC)
           diskErr == writeDisk /\ ~diskOK
       IN  /\ lastCPUDC' = LastApplied(writeCPU, cpuErr, upd.cpuDC, lastCPUDC)
           /\ cpuPWM' = IF writeCPU /\ ~cpuErr THEN SetDutyCycle(cpuPWM, upd.cpuDC) ELSE cpuPWM
           /\ lastDiskDC' = LastApplied(writeDisk, diskErr, upd.diskDC, lastDiskDC)
           /\ diskPWM' = IF writeDisk /\ ~diskErr THEN SetDutyCycle(diskPWM, upd.diskDC)
                         ELSE diskPWM
           /\ tick' = [valid |-> TRUE, cpuTemp |-> upd.cpuTemp, diskTemp |-> upd.diskTemp,
                       changedCPU |-> upd.cpuDC # lastCPUDC,
                       changedDisk |-> upd.diskDC # lastDiskDC,
                       wroteCPU |-> writeCPU, wroteDisk |-> writeDisk,
                       cpuFail |-> cpuErr, diskFail |-> diskErr,
                       same |-> tick.valid /\ tick.cpuTemp = upd.cpuTemp
                                /\ tick.diskTemp = upd.diskTemp,
                       prevOK |-> tick.valid /\ ~tick.cpuFail /\ ~tick.diskFail,
                       cpuReads |-> 1, diskReads |-> IF upd.sampled THEN 1 ELSE 0,
                       age |-> upd.age, late |-> upd.late,
                       prevCPUFail |-> tick.cpuFail, prevDiskFail |-> tick.diskFail]
    /\ fanPc' = "wait"
    /\ upd' = NoUpd
    /\ forced' = FALSE
    /\ speeds' = <<>>
    /\ UNCHANGED <<fanCfg, lastTempAge, lastSample, enabled, mu, hPc, dPc>>

\* Run's select takes <-ctx.Done() and returns nil (fan.go:80-81)
RunCancel ==
    /\ fanPc = "wait"
    /\ cancelled
    /\ fanPc' = "returned"
    /\ UNCHANGED <<fanCfg, lastCPUDC, lastDiskDC, lastTempAge, cpuPWM, diskPWM, upd,
                   tick, lastSample>>

----------------------------------------------------------------------------
(* Fan: ToggleFan, called by handleButtonEvents for the action "switch"    *)
(* (main.go:47-48), and GetFanSpeeds, called by the display                *)
(* (pages.go:558-563).  Both take the controller's lock.                   *)

\* full speed: 100 %, or 0 % under inverted polarity
ForcedDuty(inversed) == IF inversed THEN Zero ELSE One

\* variant: the forced value is written to the device but not recorded
ToggleLastApplied_Kept(wasEnabled, inversed, last) == last

\* the last-applied value a Toggle leaves: the forced one on a transition to
\* Disabled, the old one on a transition to Enabled
ToggleLastApplied(wasEnabled, inversed, last) ==
    IF wasEnabled THEN ForcedDuty(inversed) ELSE last

ToggleDevice(wasEnabled, inversed, d) ==
    IF wasEnabled /\ d.dev THEN SetDutyCycle(d, ForcedDuty(inversed)) ELSE d

\* variant: the duty cycles are returned as they are
GetFanSpeeds_Fraction(cpuDC, diskDC) == <<cpuDC, diskDC>>

\* GetFanSpeeds: the last-applied duty cycles as percentages
GetFanSpeeds(cpuDC, diskDC) == <<FMul(cpuDC, <<100, 1>>), FMul(diskDC, <<100, 1>>)>>

ToggleEnter ==
    /\ hPc = "idle"
    /\ mu = "free"
    /\ mu' = "handler"
    /\ hPc' = "toggle"
    /\ enabled' = ~enabled
    /\ lastCPUDC' = ToggleLastApplied(enabled, fanCfg.inversed, lastCPUDC)
    /\ lastDiskDC' = ToggleLastApplied(enabled, fanCfg.inversed, lastDiskDC)
    /\ cpuPWM' = ToggleDevice(enabled, fanCfg.inversed, cpuPWM)
    /\ diskPWM' = ToggleDevice(enabled, fanCfg.inversed, diskPWM)
    /\ forced' = IF enabled THEN TRUE ELSE forced
    /\ speeds' = <<>>
    /\ UNCHANGED <<fanCfg, lastTempAge, fanPc, upd, tick, lastSample, dPc>>

ToggleExit ==
    /\ hPc = "toggle"
    /\ hPc' = "idle"
    /\ mu' = "free"
    /\ UNCHANGED <<fanVars, enabled, dPc, speeds, forced>>

SpeedsEnter ==
    /\ dPc = "idle"
    /\ mu = "free"
    /\ mu' = "display"
    /\ dPc' = "speeds"
    /\ speeds' = GetFanSpeeds(lastCPUDC, lastDiskDC)
    /\ UNCHANGED <<fanVars, enabled, hPc, forced>>

SpeedsExit ==
    /\ dPc = "speeds"
    /\ dPc' = "idle"
    /\ mu' = "free"
    /\ UNCHANGED <<fanVars, enabled, hPc, speeds, forced>>

\* fan.New (fan.go:32-72)
FanInit ==
    /\ fanCfg \in [linear : BOOLEAN, tempDisks : BOOLEAN, shared : BOOLEAN,
                   inversed : {FALSE}]
    /\ lastCPUDC = Zero
    /\ lastDiskDC = Zero
    /\ lastTempAge = RefreshInterval + 1
    /\ cpuPWM = NewDevice
    /\ diskPWM = DiskDevice(fanCfg.shared)
    /\ fanPc = "wait"
    /\ upd = NoUpd
    /\ tick = NoTick
    /\ lastSample = 0

\* fan.New with the curve and the disk sensor fixed: only the polarity and
\* the shared device vary
FanInitToggle ==
    /\ fanCfg \in [linear : {FALSE}, tempDisks : {FALSE}, shared : BOOLEAN,
                   inversed : BOOLEAN]
    /\ lastCPUDC = Zero
    /\ lastDiskDC = Zero
    /\ lastTempAge = RefreshInterval + 1
    /\ cpuPWM = NewDevice
    /\ diskPWM = DiskDevice(fanCfg.shared)
    /\ fanPc = "wait"
    /\ upd = NoUpd
    /\ tick = NoTick
    /\ lastSample = 0

\* the part of the state the fan loop does not touch
ToggleQuiet ==
    /\ enabled = TRUE
    /\ mu = "free"
    /\ hPc = "idle"
    /\ dPc = "idle"
    /\ speeds = <<>>
    /\ forced = FALSE

FanQuiet ==
    /\ fanCfg = [linear |-> FALSE, tempDisks |-> FALSE, shared |-> FALSE,
                 inversed |-> FALSE]
    /\ lastCPUDC = Zero
    /\ lastDiskDC = Zero
    /\ lastTempAge = RefreshInterval + 1
    /\ cpuPWM = NewDevice
    /\ diskPWM = NewDevice
    /\ fanPc = "wait"
    /\ upd = NoUpd
    /\ tick = NoTick
    /\ lastSample = 0
    /\ ToggleQuiet

ButtonQuiet ==
    /\ ctor = Construct(TRUE, "17", TRUE)
    /\ pressTime = 7
    /\ twiceWindow = 4
    /\ cancelled = FALSE
    /\ btnDown = FALSE
    /\ presses = 0
    /\ eventChan = <<>>
    /\ pressChan = <<>>
    /\ pc = "idle"
    /\ idleT = IdleTimeout
    /\ pollT = 0
    /\ dl = 0
    /\ held = 0
    /\ pass = NoPass

----------------------------------------------------------------------------
(* main: getButtonAction and handleButtonEvents (main.go:24-93, 198-209) *)

actionNone == "none"

\* action strings tried: the built-in names, the empty string and a command
Actions == {"slider", "switch", "poweroff", "reboot", actionNone, "", "echo hi"}

\* event values tried: the three gestures, the empty string, an unknown value
EventValues == {Click, DoubleClick, LongPress, NoEvent, "hold"}

\* gestures the decoder sends in one run of the handler
MaxGestures == 3

\* capacity of the page-advance channel (main.go:172)
ButtonChanCap == 10

\* variant: an unknown event is treated as a click
getButtonAction_ClickDefault(cfg, event) ==
    IF event = DoubleClick THEN cfg.twice
    ELSE IF event = LongPress THEN cfg.press
    ELSE cfg.click

getButtonAction(cfg, event) ==
    IF event = Click THEN cfg.click
    ELSE IF event = DoubleClick THEN cfg.twice
    ELSE IF event = LongPress THEN cfg.press
    ELSE actionNone

\* variant: the empty action string starts no command
IsCustom_NonEmpty(action) ==
    action \notin {"slider", "switch", "poweroff", "reboot", actionNone, ""}

\* the default case of the switch on the action (main.go:54-55)
IsCustom(action) == action \notin {"slider", "switch", "poweroff", "reboot", actionNone}

\* gestures sent in a run that fills the page-advance channel
MaxSliderGestures == 12

\* variant: the push succeeds whatever the channel holds
SliderPush_Unbounded(n) == n + 1

\* the non-blocking push on buttonChan (main.go:43-46)
SliderPush(n) == IF n < ButtonChanCap THEN n + 1 ELSE n

NoCmds == [poweroff |-> 0, reboot |-> 0, shell |-> 0]
NoDisp == [n |-> 0, event |-> NoEvent, action |-> actionNone]
NoLook == [valid |-> FALSE, event |-> NoEvent, action |-> actionNone]

\* Run sends a gesture: a whole pass of the decoder, seen from the handler
GestureUpTo(max, e) ==
    /\ presses < max
    /\ ~cancelled
    /\ presses' = presses + 1
    /\ pressChan' = Send(pressChan, e)
    /\ UNCHANGED <<ctor, pressTime, twiceWindow, cancelled, btnDown, eventChan, pc,
                   idleT, pollT, dl, held, pass>>

Gesture(e) == GestureUpTo(MaxGestures, e)

SliderGesture(e) == GestureUpTo(MaxSliderGestures, e)

\* time.Sleep(500 * time.Millisecond) is over (main.go:26)
HandlerStart ==
    /\ handler = "sleep"
    /\ handler' = "recv"
    /\ UNCHANGED <<cfgKey, buttonChan, cmds, disp, looked, curve>>

\* case <-ctx.Done(): return (main.go:30-31)
HandlerCancel ==
    /\ handler = "recv"
    /\ hPc = "idle"
    /\ cancelled
    /\ handler' = "returned"
    /\ UNCHANGED <<cfgKey, buttonChan, cmds, disp, looked, curve>>

\* a gesture is received, looked up and dispatched (main.go:32-57); for
\* "switch" the handler is inside ToggleFan until ToggleExit
HandlerRecv ==
    /\ handler = "recv"
    /\ hPc = "idle"
    /\ pressChan # <<>>
    /\ LET event == Head(pressChan)
           action == getButtonAction(cfgKey, event)
       IN  /\ pressChan' = Tail(pressChan)
           /\ disp' = [n |-> disp.n + 1, event |-> event, action |-> action]
           /\ buttonChan' = IF action = "slider" THEN SliderPush(buttonChan)
                            ELSE buttonChan
           /\ IF action = "switch"
              THEN ToggleEnter
              ELSE UNCHANGED <<fanVars, toggleVars>>
           /\ cancelled' = IF action \in {"poweroff", "reboot"} THEN TRUE ELSE cancelled
           /\ cmds' = IF action = "poweroff" THEN [cmds EXCEPT !.poweroff = @ + 1]
                      ELSE IF action = "reboot" THEN [cmds EXCEPT !.reboot = @ + 1]
                      ELSE IF IsCustom(action) THEN [cmds EXCEPT !.shell = @ + 1]
                      ELSE cmds
    /\ UNCHANGED <<ctor, pressTime, twiceWindow, btnDown, presses, eventChan, pc,
                   idleT, pollT, dl, held, pass>>
    /\ UNCHANGED <<cfgKey, handler, looked, curve, mainVars>>

\* the goroutine of executeCustomCommand ends: cmd.Run() returned, the result
\* is logged (main.go:85-92)
ShellCmdEnds(ok) ==
    /\ cmds.shell > 0
    /\ cmds' = [cmds EXCEPT !.shell = @ - 1]
    /\ UNCHANGED <<cfgKey, handler, buttonChan, disp, looked, curve, mainVars>>

\* the goroutine of executePoweroff / executeReboot ends (main.go:63-68,
\* 74-79): a failure is logged; on success the system shuts down and sends
\* the process a termination signal
PowerCmdEnds(kind, ok) ==
    /\ cmds[kind] > 0
    /\ cmds' = [cmds EXCEPT ![kind] = @ - 1]
    /\ sigPending' = IF ok THEN TRUE ELSE sigPending
    /\ UNCHANGED <<cfgKey, handler, buttonChan, disp, looked, curve, mainPc, done, open,
                   oledPc, oledDev>>

\* getButtonAction called on its own with any event value
Lookup(e) ==
    /\ looked' = [valid |-> TRUE, event |-> e, action |-> getButtonAction(cfgKey, e)]
    /\ UNCHANGED <<cfgKey, handler, buttonChan, cmds, disp, curve, mainVars>>

----------------------------------------------------------------------------
(* main: the tasks' goroutines, the signal and the shutdown                *)
(* (main.go:95-196), with Close of each controller                         *)

\* falling edges the environment produces in a run of the whole process
MaxProcPresses == 1

Tasks == {"fan", "button", "oled"}

\* 10 ms pass while a gesture is being decoded; the idle decoder's timers,
\* which only make detectButtonEvent return NoEvent and be called again
\* (button.go:430-445), are not advanced in a run of the whole process
ProcTick == pc # "idle" /\ Tick

\* a SIGINT or SIGTERM from outside arrives on sigCh (main.go:101-102)
Signal ==
    /\ ~sigPending
    /\ sigPending' = TRUE
    /\ UNCHANGED <<handlerVars, mainPc, done, open, oledPc, oledDev>>

\* <-sigCh; cancel() (main.go:113-115)
MainSignal ==
    /\ mainPc = "waitSig"
    /\ sigPending
    /\ cancelled' = TRUE
    /\ mainPc' = "waitShutdown"
    /\ UNCHANGED <<ctor, pressTime, twiceWindow, btnDown, presses, eventChan,
                   pressChan, pc, idleT, pollT, dl, held, pass>>
    /\ UNCHANGED <<handlerVars, sigPending, done, open, oledPc, oledDev>>

\* waitForShutdown: wg.Wait() returned (main.go:190-192)
ShutdownComplete ==
    /\ mainPc = "waitShutdown"
    /\ done = Tasks
    /\ mainPc' = "deferred"
    /\ UNCHANGED <<handlerVars, sigPending, done, open, oledPc, oledDev>>

\* a wait that has no timer
ShutdownTimeout_Never ==
    /\ mainPc = "waitShutdown"
    /\ done # Tasks
    /\ FALSE
    /\ mainPc' = "deferred"
    /\ UNCHANGED <<handlerVars, sigPending, done, open, oledPc, oledDev>>

\* waitForShutdown: 5 s have passed and some task has not called wg.Done()
\* (main.go:193-194)
ShutdownTimeout ==
    /\ mainPc = "waitShutdown"
    /\ done # Tasks
    /\ mainPc' = "deferred"
    /\ UNCHANGED <<handlerVars, sigPending, done, open, oledPc, oledDev>>

\* main returns: the deferred fanCtrl.Close() sets each device to 0 and
\* closes it, ignoring write errors (main.go:107, fan.go:205-219); the
\* process ends
FanClose(ok) ==
    /\ mainPc = "deferred"
    /\ mainPc' = "exited"
    /\ cpuPWM' = IF ok THEN SetDutyCycle(cpuPWM, Zero) ELSE cpuPWM
    /\ diskPWM' = IF ok THEN SetDutyCycle(diskPWM, Zero) ELSE diskPWM
    /\ open' = open \ {"pwm"}
    /\ UNCHANGED <<fanCfg, lastCPUDC, lastDiskDC, lastTempAge, fanPc, upd, tick,
                   lastSample>>
    /\ UNCHANGED <<handlerVars, sigPending, done, oledPc, oledDev>>

\* the fan goroutine: Run returned, the deferred wg.Done() (main.go:139-144)
FanDone ==
    /\ fanPc = "returned"
    /\ fanPc' = "done"
    /\ done' = done \cup {"fan"}
    /\ UNCHANGED <<fanCfg, lastCPUDC, lastDiskDC, lastTempAge, cpuPWM, diskPWM, upd,
                   tick, lastSample>>
    /\ UNCHANGED <<handlerVars, sigPending, mainPc, open, oledPc, oledDev>>

\* the button goroutine: Run returned, the deferred buttonCtrl.Close()
\* (main.go:158, button.go:552-560)
\* variant: Close also closes the gesture channel
ButtonClose_ClosesChan ==
    /\ pc = "stopped"
    /\ pc' = "closed"
    /\ open' = open \ {"line", "pressChan"}
    /\ UNCHANGED <<ctor, pressTime, twiceWindow, cancelled, btnDown, presses,
                   eventChan, pressChan, idleT, pollT, dl, held, pass>>
    /\ UNCHANGED <<handlerVars, sigPending, mainPc, done, oledPc, oledDev>>

ButtonClose ==
    /\ pc = "stopped"
    /\ pc' = "closed"
    /\ open' = open \ {"line"}
    /\ UNCHANGED <<ctor, pressTime, twiceWindow, cancelled, btnDown, presses,
                   eventChan, pressChan, idleT, pollT, dl, held, pass>>
    /\ UNCHANGED <<handlerVars, sigPending, mainPc, done, oledPc, oledDev>>

\* the button goroutine: the deferred wg.Done() (main.go:157)
ButtonDone ==
    /\ pc = "closed"
    /\ pc' = "done"
    /\ done' = done \cup {"button"}
    /\ UNCHANGED <<ctor, pressTime, twiceWindow, cancelled, btnDown, presses,
                   eventChan, pressChan, idleT, pollT, dl, held, pass>>
    /\ UNCHANGED <<handlerVars, sigPending, mainPc, open, oledPc, oledDev>>

\* the device after NewSSD1306 and showWelcome (oled.go:68-99)
NewDisplay == [closed |-> FALSE, closeCount |-> 0, displayAfterClose |-> FALSE]

\* dev.Display(img): the write fails on a closed I2C file (ssd1306.go:126-161)
Display(d) == [d EXCEPT !.displayAfterClose = @ \/ d.closed]

\* the display's Run: case <-buttonChan: c.nextPage() (oled.go:124-126,
\* 218-236)
OledPage ==
    /\ oledPc = "run"
    /\ buttonChan > 0
    /\ buttonChan' = buttonChan - 1
    /\ oledDev' = Display(oledDev)
    /\ UNCHANGED <<cfgKey, handler, cmds, disp, looked, curve, sigPending, mainPc,
                   done, open, oledPc>>

\* a display loop that does not watch ctx.Done()
OledCancel_Never ==
    /\ oledPc = "run"
    /\ cancelled
    /\ FALSE
    /\ oledPc' = "goodbye"
    /\ UNCHANGED <<handlerVars, sigPending, mainPc, done, open, oledDev>>

\* the display's Run: case <-ctx.Done(): c.showGoodbye() (oled.go:119-120)
OledCancel ==
    /\ oledPc = "run"
    /\ cancelled
    /\ oledPc' = "goodbye"
    /\ oledDev' = Display(oledDev)
    /\ UNCHANGED <<handlerVars, sigPending, mainPc, done, open>>

\* the 2 s of showGoodbye are over: the cleared image is displayed and Run
\* returns nil (oled.go:121, 213-215)
OledReturn ==
    /\ oledPc = "goodbye"
    /\ oledPc' = "returned"
    /\ oledDev' = Display(oledDev)
    /\ UNCHANGED <<handlerVars, sigPending, mainPc, done, open>>

\* variant: Close is not held back until Run has returned, it can also run
\* while showGoodbye sleeps
OledClose_Early ==
    /\ oledPc \in {"goodbye", "returned"}
    /\ oledPc = "goodbye" => ~oledDev.closed
    /\ oledPc' = IF oledPc = "returned" THEN "closed" ELSE oledPc
    /\ open' = open \ {"display"}
    /\ oledDev' = [Display(oledDev) EXCEPT !.closed = TRUE, !.closeCount = @ + 1]
    /\ UNCHANGED <<handlerVars, sigPending, mainPc, done>>

\* the display goroutine: the deferred oledCtrl.Close() (main.go:171,
\* oled.go:131-143)
OledClose ==
    /\ oledPc = "returned"
    /\ oledPc' = "closed"
    /\ open' = open \ {"display"}
    /\ oledDev' = [Display(oledDev) EXCEPT !.closed = TRUE, !.closeCount = @ + 1]
    /\ UNCHANGED <<handlerVars, sigPending, mainPc, done>>

\* the display goroutine: the deferred wg.Done() (main.go:170)
OledDone ==
    /\ oledPc = "closed"
    /\ oledPc' = "done"
    /\ done' = done \cup {"oled"}
    /\ UNCHANGED <<handlerVars, sigPending, mainPc, open, oledDev>>

\* the process runs until main returns
Alive == mainPc # "exited"

\* the click powers off and the long press advances the display, or the
\* click advances the display and the long press reboots
ProcInit ==
    /\ cfgKey \in {[click |-> "poweroff", twice |-> actionNone, press |-> "slider"],
                   [click |-> "slider", twice |-> actionNone, press |-> "reboot"]}
    /\ handler = "sleep"
    /\ buttonChan = 0
    /\ cmds = NoCmds
    /\ disp = NoDisp
    /\ looked = NoLook
    /\ curve = NoCurve
    /\ sigPending = FALSE
    /\ mainPc = "waitSig"
    /\ done = {}
    /\ open = {"pwm", "line", "display", "pressChan"}
    /\ oledPc = "run"
    /\ oledDev = NewDisplay

\* the configuration loaded and the tasks started (main.go:95-111)
ProcQuiet ==
    /\ cfgKey = [click |-> "slider", twice |-> "switch", press |-> "poweroff"]
    /\ handler = "sleep"
    /\ buttonChan = 0
    /\ cmds = NoCmds
    /\ disp = NoDisp
    /\ looked = NoLook
    /\ curve = NoCurve
    /\ sigPending = FALSE
    /\ mainPc = "waitSig"
    /\ done = {}
    /\ open = {"pwm", "line", "display", "pressChan"}
    /\ oledPc = "run"
    /\ oledDev = NewDisplay

\* any configuration of the three keys
HandlerInit ==
    /\ cfgKey \in [click : Actions, twice : Actions, press : Actions]
    /\ handler = "sleep"
    /\ buttonChan = 0
    /\ cmds = NoCmds
    /\ disp = NoDisp
    /\ looked = NoLook
    /\ curve = NoCurve
    /\ sigPending = FALSE
    /\ mainPc = "waitSig"
    /\ done = {}
    /\ open = {"pwm", "line", "display", "pressChan"}
    /\ oledPc = "run"
    /\ oledDev = NewDisplay

----------------------------------------------------------------------------
(* Specifications *)

ButtonNext ==
    \/ Press /\ UNCHANGED <<ctor, fanVars, toggleVars, procVars>>
    \/ Release /\ UNCHANGED <<ctor, fanVars, toggleVars, procVars>>
    \/ Cancel /\ UNCHANGED <<ctor, fanVars, toggleVars, procVars>>
    \/ Tick /\ UNCHANGED <<ctor, fanVars, toggleVars, procVars>>
    \/ IdleEvent /\ UNCHANGED <<ctor, fanVars, toggleVars, procVars>>
    \/ IdleTimeoutFires /\ UNCHANGED <<ctor, fanVars, toggleVars, procVars>>
    \/ IdleCancel /\ UNCHANGED <<ctor, fanVars, toggleVars, procVars>>
    \/ PressedEvent /\ UNCHANGED <<ctor, fanVars, toggleVars, procVars>>
    \/ PressedPoll /\ UNCHANGED <<ctor, fanVars, toggleVars, procVars>>
    \/ PressedCancel /\ UNCHANGED <<ctor, fanVars, toggleVars, procVars>>
    \/ LongWaitEvent /\ UNCHANGED <<ctor, fanVars, toggleVars, procVars>>
    \/ LongWaitPoll /\ UNCHANGED <<ctor, fanVars, toggleVars, procVars>>
    \/ LongWaitCancel /\ UNCHANGED <<ctor, fanVars, toggleVars, procVars>>
    \/ AwaitEvent /\ UNCHANGED <<ctor, fanVars, toggleVars, procVars>>
    \/ AwaitTimeout /\ UNCHANGED <<ctor, fanVars, toggleVars, procVars>>
    \/ AwaitCancel /\ UNCHANGED <<ctor, fanVars, toggleVars, procVars>>
    \/ SecondEvent /\ UNCHANGED <<ctor, fanVars, toggleVars, procVars>>
    \/ SecondPoll /\ UNCHANGED <<ctor, fanVars, toggleVars, procVars>>
    \/ SecondCancel /\ UNCHANGED <<ctor, fanVars, toggleVars, procVars>>
    \/ NoLineCancel /\ UNCHANGED <<ctor, fanVars, toggleVars, procVars>>

\* a decoder just constructed beside a fan controller of the default configuration
InitButton == ButtonInit /\ FanQuiet /\ ProcQuiet

\* the gesture decoder and its environment
SpecButton == InitButton /\ [][ButtonNext]_vars

FanNext ==
    \/ \E r \in CPUReadings, d \in DiskReadings, j \in BOOLEAN :
          UpdateBegin(r, d, j) /\ UNCHANGED <<buttonVars, toggleVars, procVars>>
    \/ \E c \in BOOLEAN, d \in BOOLEAN :
          UpdateApply(c, d) /\ UNCHANGED <<buttonVars, procVars>>
    \/ Cancel /\ UNCHANGED <<ctor, fanVars, toggleVars, procVars>>
    \/ RunCancel /\ UNCHANGED <<buttonVars, toggleVars, procVars>>

\* the steps of the goroutine that runs Controller.Run
DecoderNext ==
    \/ IdleEvent \/ IdleTimeoutFires \/ IdleCancel
    \/ PressedEvent \/ PressedPoll \/ PressedCancel
    \/ LongWaitEvent \/ LongWaitPoll \/ LongWaitCancel
    \/ AwaitEvent \/ AwaitTimeout \/ AwaitCancel
    \/ SecondEvent \/ SecondPoll \/ SecondCancel
    \/ NoLineCancel

\* the decoder's goroutine is scheduled whenever it can take a step; nothing
\* is assumed of the button or of the cancellation
SpecButtonFair ==
    SpecButton /\ WF_vars(DecoderNext /\ UNCHANGED <<ctor, fanVars, toggleVars, procVars>>)

\* the decoder's goroutine is scheduled, its timers fire as time passes, and
\* a button that is down is released and its rising edge delivered
SpecButtonProgress ==
    /\ SpecButtonFair
    /\ WF_vars(Tick /\ UNCHANGED <<ctor, fanVars, toggleVars, procVars>>)
    /\ WF_vars(Release /\ UNCHANGED <<ctor, fanVars, toggleVars, procVars>>)

\* variant: the handler is started whether or not the display task is
HandlerStarted_Always(o) == "sleep"

\* go handleButtonEvents(...) is inside the display goroutine (main.go:169-176)
HandlerStarted(o) == IF o = "run" THEN "sleep" ELSE "none"

\* the state after main has started its tasks (main.go:106-111, 149-181):
\* the display is running, or it is disabled in the configuration
\* (main.go:109), or oled.New failed (main.go:163-167). When it is disabled
\* startOLEDAndButton was not called: there is no button controller, no line
\* was requested and no decoder runs
InitStartup ==
  /\ FanQuiet
  /\ \E o \in {"run", "disabled", "failed"} :
    /\ IF o = "disabled"
       THEN /\ ctor = [syslogOK |-> FALSE, lineCfg |-> "17", requestOK |-> FALSE,
                       err |-> FALSE, line |-> NilLine]
            /\ pc = "none"
            /\ idleT = 0
       ELSE /\ ctor = Construct(TRUE, "17", TRUE)
            /\ pc = "idle"
            /\ idleT = IdleTimeout
    /\ pressTime = 7
    /\ twiceWindow = 4
    /\ cancelled = FALSE
    /\ btnDown = FALSE
    /\ presses = 0
    /\ eventChan = <<>>
    /\ pressChan = <<>>
    /\ pollT = 0
    /\ dl = 0
    /\ held = 0
    /\ pass = NoPass
    /\ cfgKey = [click |-> "switch", twice |-> "poweroff", press |-> "slider"]
    /\ handler = HandlerStarted(o)
    /\ buttonChan = 0
    /\ cmds = NoCmds
    /\ disp = NoDisp
    /\ looked = NoLook
    /\ curve = NoCurve
    /\ sigPending = FALSE
    /\ mainPc = "waitSig"
    /\ done = {}
    /\ open = IF o = "run" THEN {"pwm", "line", "display", "pressChan"}
              ELSE IF o = "failed" THEN {"pwm", "line", "pressChan"}
              ELSE {"pwm"}
    /\ oledPc = o
    /\ oledDev = NewDisplay

StartupNext ==
    \/ Press /\ UNCHANGED <<ctor, fanVars, toggleVars, procVars>>
    \/ Release /\ UNCHANGED <<ctor, fanVars, toggleVars, procVars>>
    \/ Cancel /\ UNCHANGED <<ctor, fanVars, toggleVars, procVars>>
    \/ Tick /\ UNCHANGED <<ctor, fanVars, toggleVars, procVars>>
    \/ DecoderNext /\ UNCHANGED <<ctor, fanVars, toggleVars, procVars>>
    \/ HandlerStart /\ UNCHANGED <<buttonVars, fanVars, toggleVars, mainVars>>
    \/ HandlerRecv
    \/ ToggleExit /\ UNCHANGED <<buttonVars, procVars>>
    \/ HandlerCancel /\ UNCHANGED <<buttonVars, fanVars, toggleVars, mainVars>>

\* the button, the decoder and the handler, with and without the display
SpecStartup == InitStartup /\ [][StartupNext]_vars

HandlerNext ==
    \/ \E e \in {Click, DoubleClick, LongPress} :
          Gesture(e) /\ UNCHANGED <<fanVars, toggleVars, procVars>>
    \/ HandlerStart /\ UNCHANGED <<buttonVars, fanVars, toggleVars, mainVars>>
    \/ HandlerRecv
    \/ ToggleExit /\ UNCHANGED <<buttonVars, procVars>>
    \/ HandlerCancel /\ UNCHANGED <<buttonVars, fanVars, toggleVars, mainVars>>
    \/ \E ok \in BOOLEAN :
          ShellCmdEnds(ok) /\ UNCHANGED <<buttonVars, fanVars, toggleVars>>
    \/ \E kind \in {"poweroff", "reboot"}, ok \in BOOLEAN :
          PowerCmdEnds(kind, ok) /\ UNCHANGED <<buttonVars, fanVars, toggleVars>>

InitHandler == ButtonQuiet /\ FanQuiet /\ HandlerInit

\* the gesture handler, fed by the decoder's gestures
SpecHandler == InitHandler /\ [][HandlerNext]_vars

LookupNext ==
    \/ \E e \in EventValues :
          Lookup(e) /\ UNCHANGED <<buttonVars, fanVars, toggleVars>>

\* getButtonAction applied to every event value under every configuration
SpecLookup == InitHandler /\ [][LookupNext]_vars

\* the steps of each goroutine of the process, while the process runs
FanTask ==
    /\ Alive
    /\ \/ UpdateBegin(ReadOK(42), ReadFail, FALSE)
             /\ UNCHANGED <<buttonVars, toggleVars, procVars>>
       \/ UpdateApply(TRUE, TRUE) /\ UNCHANGED <<buttonVars, procVars>>
       \/ RunCancel /\ UNCHANGED <<buttonVars, toggleVars, procVars>>
       \/ FanDone /\ UNCHANGED <<buttonVars, toggleVars>>

DecoderTask ==
    /\ Alive
    /\ \/ DecoderNext /\ UNCHANGED <<ctor, fanVars, toggleVars, procVars>>
       \/ ButtonClose /\ UNCHANGED <<fanVars, toggleVars>>
       \/ ButtonDone /\ UNCHANGED <<fanVars, toggleVars>>

OledTask ==
    /\ Alive
    /\ \/ OledPage /\ UNCHANGED <<buttonVars, fanVars, toggleVars>>
       \/ OledCancel /\ UNCHANGED <<buttonVars, fanVars, toggleVars>>
       \/ OledReturn /\ UNCHANGED <<buttonVars, fanVars, toggleVars>>
       \/ OledClose /\ UNCHANGED <<buttonVars, fanVars, toggleVars>>
       \/ OledDone /\ UNCHANGED <<buttonVars, fanVars, toggleVars>>

HandlerTask ==
    /\ Alive
    /\ \/ HandlerStart /\ UNCHANGED <<buttonVars, fanVars, toggleVars, mainVars>>
       \/ HandlerRecv
       \/ HandlerCancel /\ UNCHANGED <<buttonVars, fanVars, toggleVars, mainVars>>

PowerCmdTask ==
    /\ Alive
    /\ \E kind \in {"poweroff", "reboot"}, ok \in BOOLEAN :
          PowerCmdEnds(kind, ok) /\ UNCHANGED <<buttonVars, fanVars, toggleVars>>

MainTask ==
    \/ MainSignal /\ UNCHANGED <<fanVars, toggleVars>>
    \/ ShutdownComplete /\ UNCHANGED <<buttonVars, fanVars, toggleVars>>
    \/ ShutdownTimeout /\ UNCHANGED <<buttonVars, fanVars, toggleVars>>
    \/ \E ok \in BOOLEAN : FanClose(ok) /\ UNCHANGED <<buttonVars, toggleVars>>

\* the button, the clock and the signal
ProcEnvironment ==
    /\ Alive
    /\ \/ PressUpTo(MaxProcPresses) /\ UNCHANGED <<ctor, fanVars, toggleVars, procVars>>
       \/ Release /\ UNCHANGED <<ctor, fanVars, toggleVars, procVars>>
       \/ ProcTick /\ UNCHANGED <<ctor, fanVars, toggleVars, procVars>>
       \/ Signal /\ UNCHANGED <<buttonVars, fanVars, toggleVars>>

ProcNext ==
    \/ ProcEnvironment
    \/ FanTask
    \/ DecoderTask
    \/ OledTask
    \/ HandlerTask
    \/ PowerCmdTask
    \/ MainTask

InitProcess == ButtonQuiet /\ FanQuiet /\ ProcInit

\* the whole process: every goroutine is scheduled whenever it can take a
\* step; nothing is assumed of the button, the clock or the signal
SpecProcess ==
    /\ InitProcess
    /\ [][ProcNext]_vars
    /\ WF_vars(FanTask)
    /\ WF_vars(DecoderTask)
    /\ WF_vars(OledTask)
    /\ WF_vars(HandlerTask)
    /\ WF_vars(PowerCmdTask)
    /\ WF_vars(MainTask)

\* the whole process when only main and its timer are known to advance: a
\* task may stay blocked for ever
SpecProcessMain ==
    /\ InitProcess
    /\ [][ProcNext]_vars
    /\ WF_vars(MainTask)

\* the decoder and the handler on the two ends of pressChan: a click advances
\* the display, the other gestures do nothing
DeliveryInit ==
    /\ cfgKey = [click |-> "slider", twice |-> actionNone, press |-> actionNone]
    /\ handler = "sleep"
    /\ buttonChan = 0
    /\ cmds = NoCmds
    /\ disp = NoDisp
    /\ looked = NoLook
    /\ curve = NoCurve
    /\ sigPending = FALSE
    /\ mainPc = "waitSig"
    /\ done = {}
    /\ open = {"pwm", "line", "display", "pressChan"}
    /\ oledPc = "run"
    /\ oledDev = NewDisplay

InitDelivery == ButtonQuiet /\ FanQuiet /\ DeliveryInit

DeliveryNext ==
    \/ Press /\ UNCHANGED <<ctor, fanVars, toggleVars, procVars>>
    \/ Release /\ UNCHANGED <<ctor, fanVars, toggleVars, procVars>>
    \/ Cancel /\ UNCHANGED <<ctor, fanVars, toggleVars, procVars>>
    \/ Tick /\ UNCHANGED <<ctor, fanVars, toggleVars, procVars>>
    \/ DecoderNext /\ UNCHANGED <<ctor, fanVars, toggleVars, procVars>>
    \/ HandlerStart /\ UNCHANGED <<buttonVars, fanVars, toggleVars, mainVars>>
    \/ HandlerRecv
    \/ HandlerCancel /\ UNCHANGED <<buttonVars, fanVars, toggleVars, mainVars>>

SpecDelivery == InitDelivery /\ [][DeliveryNext]_vars

\* the handler between pressChan and the page-advance channel, with the
\* display loop taking requests whenever it gets to its select
SliderNext ==
    \/ \E e \in {Click, LongPress} :
          SliderGesture(e) /\ UNCHANGED <<fanVars, toggleVars, procVars>>
    \/ HandlerStart /\ UNCHANGED <<buttonVars, fanVars, toggleVars, mainVars>>
    \/ HandlerRecv
    \/ OledPage /\ UNCHANGED <<buttonVars, fanVars, toggleVars>>

SpecSlider == InitDelivery /\ [][SliderNext]_vars

InitCurve == ButtonQuiet /\ FanQuiet /\ ProcQuiet

\* one evaluation in each run
CurveNext ==
    /\ ~curve.valid
    /\ \E temp \in CurveTemps, levels \in CurveLevels, linear \in BOOLEAN :
          Curve(temp, levels, linear) /\ UNCHANGED <<buttonVars, fanVars, toggleVars>>

SpecCurve == InitCurve /\ [][CurveNext]_vars

QueueNext ==
    \/ QueuePress /\ UNCHANGED <<ctor, fanVars, toggleVars, procVars>>
    \/ Release /\ UNCHANGED <<ctor, fanVars, toggleVars, procVars>>
    \/ Tick /\ UNCHANGED <<ctor, fanVars, toggleVars, procVars>>
    \/ IdleEvent /\ UNCHANGED <<ctor, fanVars, toggleVars, procVars>>
    \/ IdleTimeoutFires /\ UNCHANGED <<ctor, fanVars, toggleVars, procVars>>
    \/ PressedEvent /\ UNCHANGED <<ctor, fanVars, toggleVars, procVars>>
    \/ PressedPoll /\ UNCHANGED <<ctor, fanVars, toggleVars, procVars>>
    \/ LongWaitEvent /\ UNCHANGED <<ctor, fanVars, toggleVars, procVars>>
    \/ LongWaitPoll /\ UNCHANGED <<ctor, fanVars, toggleVars, procVars>>
    \/ AwaitTimeout /\ UNCHANGED <<ctor, fanVars, toggleVars, procVars>>

\* the gesture decoder with a consumer that never receives
SpecQueue == InitButton /\ [][QueueNext]_vars

\* a fan controller just constructed, the button untouched
InitFan == FanInit /\ ToggleQuiet /\ ButtonQuiet /\ ProcQuiet

\* the fan loop alone, Enabled throughout, until cancellation
SpecFan == InitFan /\ [][FanNext]_vars

ToggleNext ==
    \/ \E r \in CPUReadings, d \in DiskReadings, j \in BOOLEAN :
          UpdateBegin(r, d, j) /\ UNCHANGED <<buttonVars, toggleVars, procVars>>
    \/ UpdateSkipped /\ UNCHANGED <<buttonVars, toggleVars, procVars>>
    \/ \E c \in BOOLEAN, d \in BOOLEAN :
          UpdateApply(c, d) /\ UNCHANGED <<buttonVars, procVars>>
    \/ ToggleEnter /\ UNCHANGED <<buttonVars, procVars>>
    \/ ToggleExit /\ UNCHANGED <<buttonVars, procVars>>
    \/ SpeedsEnter /\ UNCHANGED <<buttonVars, procVars>>
    \/ SpeedsExit /\ UNCHANGED <<buttonVars, procVars>>

\* a fan controller just constructed, Enabled, the lock free
InitToggle == FanInitToggle /\ ToggleQuiet /\ ButtonQuiet /\ ProcQuiet

\* the fan loop, the gesture handler's toggle and the display's speed query
SpecToggle == InitToggle /\ [][ToggleNext]_vars

----------------------------------------------------------------------------
(* Gesture decoder: the claims *)

\* C15: once ctx is cancelled, a started Run returns from whichever wait it is
\* in, with no further edge needed.
C15_CancelReturns == (cancelled /\ ~ctor.err) ~> (pc = "stopped")

\* Run returned from the wait for the second release, on cancellation
C15_Witness ==
    /\ cancelled
    /\ pc = "stopped"
    /\ pass.active /\ pass.byCancel /\ pass.second /\ ~pass.rel2
    /\ btnDown

\* no edge source was acquired: no line configured, a line that is no number,
\* or a failed line request
NoSource == ctor.lineCfg \in {"", "x"} \/ ~ctor.requestOK

\* a controller without a line
Disabled == ~ctor.err /\ ctor.line = NilLine

\* a disabled controller queues no edge and no gesture, Run returns only on
\* cancellation and, once cancelled, does return
DisabledNoOp ==
    /\ [](Disabled => (pressChan = <<>> /\ eventChan = <<>> /\ ~pass.active))
    /\ []((Disabled /\ pc = "stopped") => cancelled)
    /\ (Disabled /\ cancelled) ~> (pc = "stopped")

Emits == pass.active /\ ~pass.done /\ pass'.done /\ pass'.out # NoEvent /\ ~pass'.byCancel

\* the non-blocking send of the returned gesture: appended while fewer than 10
\* are queued, dropped otherwise, and the decoder is back in the idle wait
SendOrDrop ==
    Emits =>
        /\ pc' = "idle"
        /\ pressChan' = IF Len(pressChan) < PressChanCap
                        THEN Append(pressChan, pass'.out)
                        ELSE pressChan

\* C14: the send of a gesture never blocks: with fewer than 10 gestures queued
\* it is appended, with 10 queued it is dropped and the queue is unchanged, and
\* in both cases the decoder goes on to Idle; the queue never holds more than 10.
C14_NonBlockingSend ==
    /\ [](Len(pressChan) <= PressChanCap)
    /\ [][SendOrDrop]_vars

\* an 11th gesture was returned with 10 queued and the decoder is in Idle again
C14_Witness ==
    /\ Len(pressChan) = PressChanCap
    /\ presses = PressChanCap + 1
    /\ pass.active /\ pass.done /\ pass.out # NoEvent
    /\ pc = "idle"

\* a pass that has returned without ctx.Done() having ended it
Completed == pass.active /\ pass.done /\ ~pass.byCancel

\* C1: a press released before pressTime, with no second falling edge consumed
\* before the double-click deadline, ends (absent cancellation) in exactly one
\* Click, returned when the deadline has elapsed, and in no other gesture.
C1_SingleClick ==
    (Completed /\ pass.hold = "short" /\ ~pass.second)
        => (pass.out = Click /\ pass.n = 1 /\ pass.atDeadline)

C1_Witness ==
    /\ Completed /\ pass.hold = "short" /\ ~pass.second
    /\ pass.out = Click /\ pc = "idle" /\ Len(pressChan) > 0

\* C2: a short press, a second falling edge consumed within twiceWindow and its
\* rising edge consumed end in exactly one DoubleClick and no Click or LongPress.
C2_DoubleClick ==
    (pass.active /\ pass.done /\ pass.hold = "short" /\ pass.second /\ pass.rel2)
        => (pass.out = DoubleClick /\ pass.n = 1)

C2_Witness ==
    /\ pass.active /\ pass.done /\ pass.hold = "short" /\ pass.second /\ pass.rel2
    /\ pass.out = DoubleClick /\ pc = "idle" /\ Len(pressChan) > 0

\* C3: a press held longer than pressTime and then released ends in exactly one
\* LongPress, whatever the hold duration above pressTime.
C3_LongPress ==
    (Completed /\ pass.hold = "long") => (pass.out = LongPress /\ pass.n = 1)

\* C4: a LongPress is returned only after the rising edge that ends the held
\* press has been consumed.
C4_LongPressAfterRelease ==
    (pass.active /\ pass.out = LongPress) => pass.released

\* C5: a Click is returned only once the double-click deadline has elapsed with
\* no second falling edge consumed, and a DoubleClick only after the second
\* press's rising edge has been consumed.
C5_ClickAtDeadline ==
    /\ (pass.active /\ pass.out = Click) => (pass.atDeadline /\ ~pass.second)
    /\ (pass.active /\ pass.out = DoubleClick) => pass.rel2

----------------------------------------------------------------------------
(* Fan loop: the claims *)

\* a duty cycle is 0 or in [MinDutyCycle, 1]
Floored(dc) == dc = Zero \/ (FLeq(MinDutyCycle, dc) /\ FLeq(dc, One))

\* C6: each channel's last-applied duty cycle is 0 or in [0.07, 1], and so is
\* every duty cycle a tick passes to a PWM device or a device holds.
C6_Floor ==
    /\ Floored(lastCPUDC) /\ Floored(lastDiskDC)
    /\ fanPc = "apply" => (Floored(upd.cpuDC) /\ Floored(upd.diskDC))
    /\ cpuPWM.set => Floored(cpuPWM.duty)
    /\ diskPWM.set => Floored(diskPWM.duty)

\* linear mode at temp = lv0 computes 0.01 and applies 0.07
C6_Witness ==
    /\ fanCfg.linear /\ tick.valid /\ tick.cpuTemp = LevelsC[1] /\ ~tick.cpuFail
    /\ fanPc = "wait" /\ lastCPUDC = MinDutyCycle
    /\ cpuPWM.set /\ cpuPWM.duty = MinDutyCycle

C10_DiskTempCached ==
    (tick.valid /\ fanPc = "wait") => tick.diskTemp = lastSample

----------------------------------------------------------------------------
(* Toggle and speed query: the claims *)

\* C11: the disk temperature source is read only when disk-temperature control
\* is configured and more than the refresh interval has passed since the last
\* read (the 11th tick after it, or the 10th when that tick came late), at
\* most once in a tick; the CPU sensor is read once in every tick.
C11_DiskRateLimit ==
    tick.valid =>
        /\ tick.cpuReads = 1
        /\ tick.diskReads <= 1
        /\ tick.diskReads = 1 =>
              /\ fanCfg.tempDisks
              /\ \/ tick.age > RefreshInterval
                 \/ tick.age = RefreshInterval /\ tick.late

\* a second read of the disk sensor, at the 10th tick after the first
C11_Witness ==
    /\ tick.valid
    /\ fanPc = "wait"
    /\ tick.diskReads = 1
    /\ tick.age = RefreshInterval
    /\ fanCfg.tempDisks

\* a tick in which a write failed leaves that channel's last-applied value
\* and device as they were, and the loop goes on to wait for the next tick
FailureKeeps ==
    (fanPc = "apply" /\ fanPc' = "wait") =>
        /\ tick'.cpuFail => (lastCPUDC' = lastCPUDC /\ cpuPWM' = cpuPWM)
        /\ tick'.diskFail => (lastDiskDC' = lastDiskDC /\ diskPWM' = diskPWM)

\* Run has returned only if ctx was cancelled
ReturnedOnlyOnCancel == fanPc = "returned" => cancelled

\* C12 as stated: a write failure does not end the loop, leaves last-applied
\* unchanged, and the failed channel is written again on the next tick whenever
\* the computed duty cycle still differs from last-applied.
C12_WriteFailure_Stated ==
    /\ [](ReturnedOnlyOnCancel)
    /\ [][FailureKeeps]_vars
    /\ [](tick.valid =>
            /\ (tick.prevCPUFail /\ tick.changedCPU) => tick.wroteCPU
            /\ (tick.prevDiskFail /\ tick.changedDisk) => tick.wroteDisk)

\* C12: a write failure does not end the loop (Run returns only on
\* cancellation), leaves the failed channel's last-applied value unchanged, and
\* on the next tick the CPU channel is written again whenever its computed duty
\* cycle still differs from last-applied; the disk channel is written again
\* whenever its duty cycle still differs and the CPU write of that tick did not
\* fail.
C12_WriteFailure ==
    /\ [](ReturnedOnlyOnCancel)
    /\ [][FailureKeeps]_vars
    /\ [](tick.valid =>
            /\ (tick.prevCPUFail /\ tick.changedCPU) => tick.wroteCPU
            /\ (tick.prevDiskFail /\ tick.changedDisk /\ ~tick.cpuFail) => tick.wroteDisk)

\* a tick after a failed disk write writes the disk device again
C12_Witness ==
    /\ tick.valid
    /\ fanPc = "wait"
    /\ tick.prevDiskFail
    /\ tick.changedDisk
    /\ tick.wroteDisk
    /\ ~tick.diskFail
    /\ diskPWM.duty = lastDiskDC

----------------------------------------------------------------------------
(* Gesture handler: the claims *)

\* C18: getButtonAction returns the click action for Click, the twice action
\* for DoubleClick, the press action for LongPress, each as configured, and
\* "none" for every other event value; the call changes nothing else.
C18_Lookup ==
    /\ [](looked.valid =>
            /\ looked.event = "click" => looked.action = cfgKey.click
            /\ looked.event = "twice" => looked.action = cfgKey.twice
            /\ looked.event = "press" => looked.action = cfgKey.press
            /\ looked.event \notin {"click", "twice", "press"} => looked.action = "none")
    /\ [][looked' # looked =>
            UNCHANGED <<buttonVars, fanVars, toggleVars, cfgKey, handler, buttonChan,
                        cmds, disp, mainVars>>]_vars

\* an unknown event was looked up under a configuration with an empty and a
\* custom action
C18_Witness ==
    /\ looked.valid
    /\ looked.event = "hold"
    /\ looked.action = "none"
    /\ cfgKey.click = ""
    /\ cfgKey.press = "echo hi"

\* the step dispatches a gesture
Dispatches == disp'.n # disp.n

\* what one dispatch of the action string `a` does, and nothing else
DispatchEffect(a) ==
    /\ a = getButtonAction(cfgKey, disp'.event)
    /\ buttonChan' = IF a = "slider"
                     THEN (IF buttonChan < 10 THEN buttonChan + 1 ELSE buttonChan)
                     ELSE buttonChan
    /\ IF a = "switch"
       THEN enabled' = ~enabled /\ hPc' = "toggle"
       ELSE UNCHANGED <<fanVars, toggleVars>>
    /\ cmds'.poweroff = cmds.poweroff + (IF a = "poweroff" THEN 1 ELSE 0)
    /\ cmds'.reboot = cmds.reboot + (IF a = "reboot" THEN 1 ELSE 0)
    /\ cancelled' = (cancelled \/ a \in {"poweroff", "reboot"})
    /\ cmds'.shell = cmds.shell
                     + (IF a \in {"slider", "switch", "poweroff", "reboot", "none"}
                        THEN 0 ELSE 1)
    /\ handler' = "recv"
    /\ UNCHANGED <<cfgKey, mainVars>>

----------------------------------------------------------------------------
(* Shutdown: the claims *)

FanStopped == fanPc \in {"returned", "done"}

\* C13: once ctx is cancelled, by the signal or by a poweroff or reboot
\* gesture, eventually fanCtrl.Close() has been called, which sets both
\* devices to 0 and releases them; no device is written after that.
C13_FanShutdown ==
    /\ cancelled ~> ("pwm" \notin open)
    /\ [][("pwm" \notin open) => (cpuPWM' = cpuPWM /\ diskPWM' = diskPWM)]_vars

\* a poweroff or reboot action has been dispatched
PowerDispatched == disp.n > 0 /\ disp.action \in {"poweroff", "reboot"}

\* every task has left its loop, or the process has ended
AllStopped ==
    \/ mainPc = "exited"
    \/ /\ FanStopped
       /\ pc \in {"stopped", "closed", "done"}
       /\ oledPc \in {"returned", "closed", "done"}
       /\ handler = "returned"

\* C19: after a gesture whose action is "poweroff" or "reboot" is dispatched,
\* ctx is cancelled and the fan loop, the decoder, the display loop and the
\* gesture handler all eventually stop.
C19_OrderlyShutdown ==
    /\ [](PowerDispatched => cancelled)
    /\ PowerDispatched ~> AllStopped

\* all four have stopped after a poweroff click, with main still waiting for
\* a signal
C19_Witness ==
    /\ PowerDispatched
    /\ disp.event = Click
    /\ mainPc = "waitSig"
    /\ FanStopped
    /\ pc \in {"stopped", "closed", "done"}
    /\ oledPc \in {"returned", "closed", "done"}
    /\ handler = "returned"

\* C20: no task is counted done by the wait group while the hardware it owns
\* is still held: the fan loop its PWM devices, the decoder its GPIO line, the
\* display loop its display.
C20_ReleaseBeforeDone ==
    /\ "fan" \in done => "pwm" \notin open
    /\ "button" \in done => "line" \notin open
    /\ "oled" \in done => "display" \notin open

\* Run queues the gesture detectButtonEvent has just returned, behind the
\* queued ones
Enqueued ==
    /\ disp' = disp
    /\ pass'.out \in {Click, DoubleClick, LongPress}
    /\ pass'.done
    /\ pressChan' = Append(pressChan, pass'.out)

\* the handler receives the oldest queued gesture, which leaves the queue
Delivered ==
    /\ pressChan # <<>>
    /\ disp'.n = disp.n + 1
    /\ disp'.event = Head(pressChan)
    /\ pressChan' = Tail(pressChan)

\* C22: pressChan changes only by the decoder appending the gesture it has
\* just detected and by the handler taking the oldest one, which is the one
\* it dispatches: gestures are received in the order they were queued, each
\* once, and none is invented.
C22_DeliveryOrder ==
    [][(pressChan' # pressChan \/ disp' # disp) => (Enqueued \/ Delivered)]_vars

\* a click, a long press and a click were queued; the handler has received
\* the first click and the other two are queued in their order
C22_Witness ==
    /\ disp.n = 1
    /\ disp.event = Click
    /\ pressChan = <<LongPress, Click>>

\* the handler dispatches a "slider" action in this step
SliderDispatched == disp'.n = disp.n + 1 /\ disp'.action = "slider"

\* C23: a "slider" action adds a request to buttonChan while fewer than 10 are
\* pending and otherwise leaves the channel as it is; in both cases the
\* handler is back at its select; buttonChan never holds more than 10.
C23_PageAdvance ==
    /\ [](buttonChan <= ButtonChanCap)
    /\ [][SliderDispatched =>
             /\ buttonChan' = IF buttonChan < ButtonChanCap THEN buttonChan + 1
                              ELSE buttonChan
             /\ handler' = "recv"]_vars

\* twelve gestures were dispatched, the last one a click, and the channel is
\* full and the handler is waiting for the next gesture
C23_Witness ==
    /\ disp.n = MaxSliderGestures
    /\ disp.action = "slider"
    /\ buttonChan = ButtonChanCap
    /\ handler = "recv"

\* the five states of detectButtonEvent
DecoderStates == {"idle", "pressed", "longwait", "await", "second"}

DrainedPress ==
    /\ pc = "idle"
    /\ pass.done /\ pass.out = DoubleClick /\ pass.rel2 /\ ~pass.byCancel
    /\ btnDown
    /\ presses = MaxPresses
    /\ eventChan = <<>>

C34_SecondCommits ==
    /\ [](pass.second /\ pass.done => pass.out = DoubleClick)
    /\ [](pc = "second" => pass.second /\ ~pass.done)
    /\ [][pc = "second" /\ pc' # "second"
            => \/ eventChan # <<>> /\ Head(eventChan) = Rising /\ pc' = "idle"
               \/ cancelled /\ pc' = "stopped"]_vars
    /\ [][pc = "second" /\ pressChan' # pressChan
            => pressChan' = Send(pressChan, DoubleClick)]_vars

\* DoubleClick was emitted at the release of a second hold longer than
\* pressTime
C34_Witness ==
    /\ pass.second /\ pass.rel2 /\ pass.done /\ ~pass.byCancel
    /\ pass.hold2 = "long"
    /\ pass.out = DoubleClick
    /\ pressChan = <<DoubleClick>>

\* the four waits of detectButtonEvent after Idle
DecoderWaits == {"pressed", "longwait", "await", "second"}

\* C35: without cancellation, when every press is released and its rising
\* edge delivered, the decoder in any of Pressed, the long-press release wait,
\* the wait for a second click and the second-release wait eventually is back
\* in Idle.
C35_DecoderProgress ==
    /\ (pc \in DecoderWaits) ~> (pc = "idle" \/ cancelled)
    /\ []<>(pc \notin DecoderWaits \/ cancelled)

\* back in Idle, not cancelled, after a pass that went through Pressed, the
\* wait for a second click and the second-release wait
C35_Witness ==
    /\ pc = "idle"
    /\ ~cancelled
    /\ ~btnDown
    /\ pass.done /\ pass.second /\ pass.rel2
    /\ presses = 2
    /\ eventChan = <<>>

\* the step is a tick's apply whose CPU write fails
CPUWriteFails == fanPc = "apply" /\ fanPc' = "wait" /\ tick'.cpuFail

\* the step is a tick's apply whose disk write fails
DiskWriteFails == fanPc = "apply" /\ fanPc' = "wait" /\ tick'.diskFail

\* C38: a tick whose CPU write fails leaves lastCPUDC, lastDiskDC and the disk
\* device unchanged and does not attempt the disk write, even when the disk
\* duty cycle computed differs from lastDiskDC; a tick whose disk write fails
\* keeps the CPU update it has already applied.
C38_CPUFailureEndsTick ==
    /\ [][CPUWriteFails => /\ lastCPUDC' = lastCPUDC
                           /\ lastDiskDC' = lastDiskDC
                           /\ diskPWM' = diskPWM
                           /\ ~tick'.wroteDisk]_vars
    /\ [][DiskWriteFails => /\ lastDiskDC' = lastDiskDC
                            /\ diskPWM' = diskPWM
                            /\ ~tick'.cpuFail
                            /\ tick'.wroteCPU => /\ lastCPUDC' = upd.cpuDC
                                                 /\ cpuPWM'.duty = upd.cpuDC]_vars

\* the CPU write of the last tick failed and the disk channel, whose duty
\* cycle differed from lastDiskDC, was not written
C38_Witness ==
    /\ tick.valid
    /\ fanPc = "wait"
    /\ tick.cpuFail
    /\ tick.changedDisk
    /\ ~tick.wroteDisk
    /\ diskPWM.dev
    /\ ~diskPWM.set

\* the last-applied value of a channel is what its device was last set to,
\* and 0 while the device has not been set
Tracks(last, dev) ==
    /\ last = dev.duty
    /\ ~dev.set => last = Zero

\* C39: after any ticks with any write failures, lastCPUDC and lastDiskDC are
\* the duty cycles of the last successful write to the CPU and to the disk
\* device, and 0 while no write to the device has succeeded; a tick that
\* computes the value last applied (0 at first) writes nothing.
C39_LastAppliedTracks ==
    /\ [](Tracks(lastCPUDC, cpuPWM))
    /\ [](Tracks(lastDiskDC, diskPWM))
    /\ [][fanPc = "apply" /\ fanPc' = "wait" /\ upd.cpuDC = lastCPUDC
            => ~tick'.wroteCPU /\ cpuPWM' = cpuPWM]_vars
    /\ [][fanPc = "apply" /\ fanPc' = "wait" /\ upd.diskDC = lastDiskDC
            => ~tick'.wroteDisk /\ diskPWM' = diskPWM]_vars

\* a CPU write has failed after an earlier one had succeeded, and a disk
\* write has succeeded: each last-applied value is the device's
C39_Witness ==
    /\ tick.valid
    /\ fanPc = "wait"
    /\ tick.cpuFail
    /\ cpuPWM.set /\ lastCPUDC # Zero /\ lastCPUDC = cpuPWM.duty
    /\ diskPWM.set /\ lastDiskDC # Zero /\ lastDiskDC = diskPWM.duty

\* C40: with the disk channel on the CPU channel's number there is no disk
\* device: no tick writes a disk duty cycle, lastDiskDC stays 0 whatever the
\* disk temperature, and the one device is set from the CPU temperature
\* alone.
C40_SharedDevice ==
    /\ [](fanCfg.shared => diskPWM = NilDevice /\ lastDiskDC = Zero)
    /\ [](fanCfg.shared /\ tick.valid => ~tick.wroteDisk /\ ~tick.diskFail)
    /\ [][fanCfg.shared /\ fanPc = "apply" /\ fanPc' = "wait"
            => cpuPWM' = IF tick'.wroteCPU /\ ~tick'.cpuFail
                         THEN SetDutyCycle(cpuPWM,
                                  ApplyMinimum(calculateDutyCycle(upd.cpuTemp, "c",
                                                                  fanCfg.linear)))
                         ELSE cpuPWM]_vars

\* one device for both channels: the tick sampled 45 degrees on the disks,
\* whose duty cycle differs from lastDiskDC = 0, wrote the CPU duty cycle and
\* no disk duty cycle
C40_Witness ==
    /\ fanCfg.shared
    /\ tick.valid
    /\ fanPc = "wait"
    /\ tick.diskTemp = 45
    /\ tick.changedDisk
    /\ ~tick.wroteDisk
    /\ tick.wroteCPU /\ ~tick.cpuFail
    /\ lastDiskDC = Zero
    /\ cpuPWM.set

\* getTemperatures could not read or parse the CPU sensor in this step
CPUReadFails == fanPc = "wait" /\ fanPc' = "apply" /\ upd'.cpuRead = "fail"

\* C28: when the CPU sensor cannot be read or parsed on a tick, update goes
\* on with a CPU temperature of 0 and computes a CPU duty cycle of 0 in
\* stepped and in linear mode (lv0 is 35); the tick completes, the only
\* error it can report is a failed write, and Run waits for the next tick.
C28_SensorFailure ==
    /\ [][CPUReadFails => upd'.cpuTemp = 0 /\ upd'.cpuDC = <<0, 1>>]_vars
    /\ [][fanPc = "apply" /\ upd.cpuRead = "fail" /\ fanPc' # "apply" =>
             /\ fanPc' = "wait"
             /\ tick'.valid
             /\ tick'.cpuTemp = 0
             /\ tick'.cpuFail => tick'.wroteCPU]_vars

\* linear mode: the tick after one whose CPU read failed has read 42 degrees
C28_Witness ==
    /\ fanCfg.linear
    /\ tick.valid
    /\ tick.cpuTemp = 0
    /\ ~tick.cpuFail
    /\ fanPc = "apply"
    /\ upd.cpuRead = "ok"
    /\ upd.cpuTemp = 42

----------------------------------------------------------------------------
(* The curve: the claims *)

\* C24: in stepped mode the result is one of 0, 1/4, 1/2, 3/4, 1; with
\* lv0 <= lv1 <= lv2 <= lv3 it is 0 below lv0, 1/4 in [lv0, lv1), 1/2 in
\* [lv1, lv2), 3/4 in [lv2, lv3) and 1 from lv3 on; with 35/40/45/50 the
\* temperature 42 gives 1/2.
C24_Stepped ==
    curve.valid /\ ~curve.linear =>
        LET t == curve.temp
            l == curve.levels
            out == curve.out
        IN  /\ out \in {<<0, 1>>, <<1, 4>>, <<1, 2>>, <<3, 4>>, <<1, 1>>}
            /\ l[1] <= l[2] /\ l[2] <= l[3] /\ l[3] <= l[4] =>
                  /\ t < l[1] => out = <<0, 1>>
                  /\ l[1] <= t /\ t < l[2] => out = <<1, 4>>
                  /\ l[2] <= t /\ t < l[3] => out = <<1, 2>>
                  /\ l[3] <= t /\ t < l[4] => out = <<3, 4>>
                  /\ t >= l[4] => out = <<1, 1>>
            /\ l[1] = 35 /\ l[2] = 40 /\ l[3] = 45 /\ l[4] = 50 /\ t = 42
                  => out = <<1, 2>>

\* stepped mode at a temperature equal to lv1, strictly between lv0 and lv2
C24_Witness ==
    /\ curve.valid
    /\ ~curve.linear
    /\ curve.levels[1] < curve.levels[2]
    /\ curve.levels[2] < curve.levels[3]
    /\ curve.temp = curve.levels[2]
    /\ curve.out = <<1, 2>>

\* linear mode, 35/40/45/50 with the maximum 80, evaluated at 42
Scenario42 ==
    /\ curve.valid
    /\ curve.linear
    /\ curve.levels = <<35, 40, 45, 50, 80>>
    /\ curve.temp = 42

\* C25 as stated: the scenario gives 3/5, that is
\* 1/2 + (42 - 40)/(45 - 40) * (3/4 - 1/2).
C25_LinearScenario_Stated == Scenario42 => curve.out = <<3, 5>>

\* C25: in linear mode with 35/40/45/50 and the maximum 80, the temperature
\* 42 gives 7/20, that is 1/4 + (42 - 40)/(45 - 40) * (1/2 - 1/4): 42 lies
\* between the control points (40, 0.25) and (45, 0.50).
C25_LinearScenario == Scenario42 => curve.out = <<7, 20>>

C25_Witness == Scenario42 /\ curve.out = <<7, 20>>

\* the control points' duty cycles: 0.01, 0.25, 0.50, 0.75, 1.0
ControlDuty == <<<<1, 100>>, <<1, 4>>, <<1, 2>>, <<3, 4>>, <<1, 1>>>>

\* t lies between control points i and i + 1
Bracket(l, t, i) == l[i] <= t /\ t < l[i + 1]

\* the straight line between control points i and i + 1, at t
OnLine(l, t, i) ==
    FAdd(ControlDuty[i],
         FMul(<<t - l[i], 1>>,
              FMul(FSub(ControlDuty[i + 1], ControlDuty[i]), <<1, l[i + 1] - l[i]>>)))

\* the first bracket, in ascending order, that t lies in
FirstBracket(l, t) ==
    CHOOSE i \in 1..4 : Bracket(l, t, i) /\ \A j \in 1..(i - 1) : ~Bracket(l, t, j)

\* the result is 0 or within 0.01 .. 1.0, and it is a number
InRange(out) == out[2] > 0 /\ (out = <<0, 1>> \/ (FLeq(<<1, 100>>, out) /\ FLeq(out, <<1, 1>>)))

\* C26: in linear mode, whatever the breakpoints, the result is 0 when
\* t < lv0, 1 when t >= max, and otherwise the value at t of the line between
\* the control points of the first bracket containing t; it is 0 or within
\* 0.01 .. 1.0 and no division by zero occurs.
C26_LinearValues ==
    curve.valid /\ curve.linear =>
        LET t == curve.temp
            l == curve.levels
            out == curve.out
        IN  /\ t < l[1] => out = <<0, 1>>
            /\ t >= l[1] /\ t >= l[5] => out = <<1, 1>>
            /\ t >= l[1] /\ t < l[5] =>
                  /\ \E i \in 1..4 : Bracket(l, t, i)
                  /\ l[FirstBracket(l, t) + 1] # l[FirstBracket(l, t)]
                  /\ out = OnLine(l, t, FirstBracket(l, t))
            /\ InRange(out)

C32_ChannelOpen ==
    /\ []("pressChan" \in open)
    /\ [](disp.n > 0 => disp.event # NoEvent)
    /\ [][pressChan = <<>> => disp' = disp]_vars
    /\ [][pressChan = <<>> /\ handler = "recv" /\ handler' # handler => cancelled]_vars

\* Close has been called, nothing is queued and the handler is at its
\* receive: the channel is open
C32_Witness ==
    /\ pc \in {"closed", "done"}
    /\ "line" \notin open
    /\ pressChan = <<>>
    /\ handler = "recv"
    /\ "pressChan" \in open

\* C36: once ctx is cancelled the decoder puts no further gesture on
\* pressChan and the handler dispatches no further action, whatever is queued
\* or in progress at that moment.
C36_NoActionAfterCancel ==
    /\ [][cancelled => pressChan' = pressChan \/ Len(pressChan') < Len(pressChan)]_vars
    /\ [][cancelled => disp' = disp /\ buttonChan' = buttonChan /\ cmds' = cmds]_vars

\* the display task was never started
NoDisplayTask == oledPc \in {"disabled", "failed"}

\* C37: when the display is disabled or its creation failed the handler was
\* never started: whatever the button does, no gesture is taken from
\* pressChan and no action is dispatched (no page advance, no fan toggle, no
\* power or custom command).
C37_HandlerNeedsDisplay ==
    /\ [](NoDisplayTask => disp = NoDisp /\ cmds = NoCmds)
    /\ [](NoDisplayTask => buttonChan = 0 /\ hPc = "idle")
    /\ [](oledPc = "disabled" => pc = "none" /\ pressChan = <<>>)
    /\ [][NoDisplayTask => /\ Len(pressChan') >= Len(pressChan)
                           /\ enabled' = enabled
                           /\ (cancelled' => cancelled \/ disp' = disp)]_vars

\* the display's creation failed and two gestures of the button stay in the
\* queue
C37_Witness ==
    /\ oledPc = "failed"
    /\ Len(pressChan) >= 2
    /\ handler = "none"
    /\ disp.n = 0

\* C21: after the signal has cancelled ctx, waitForShutdown returns, either
\* with every task done or on the 5 s timer, whatever the tasks do; it
\* returns to main and nowhere else.
C21_BoundedGrace ==
    /\ (mainPc = "waitShutdown") ~> (mainPc \in {"deferred", "exited"})
    /\ [][mainPc = "waitShutdown" /\ mainPc' # "waitShutdown"
             => cancelled /\ mainPc' = "deferred"]_vars
    /\ [](mainPc = "waitShutdown" => cancelled)

\* the wait has returned on the timer while the fan loop has not yet seen
\* the cancellation
C21_Witness ==
    /\ mainPc = "deferred"
    /\ fanPc \in {"wait", "apply"}
    /\ done # Tasks

\* the display calls GetFanSpeeds in this step; it returns in this step
SpeedsCalled == dPc = "idle" /\ dPc' = "speeds"
SpeedsReturns == dPc = "speeds" /\ dPc' = "idle"

\* what GetFanSpeeds must leave alone
SpeedsFrame ==
    /\ lastCPUDC' = lastCPUDC
    /\ lastDiskDC' = lastDiskDC
    /\ enabled' = enabled
    /\ cpuPWM' = cpuPWM
    /\ diskPWM' = diskPWM

\* the fan loop can take its next step: finish the update it is in, or start
\* or skip the next tick
TickCanStep ==
    \/ ENABLED (\E c \in BOOLEAN, d \in BOOLEAN : UpdateApply(c, d))
    \/ ENABLED UpdateSkipped
    \/ ENABLED (\E r \in CPUReadings, d \in DiskReadings, j \in BOOLEAN :
                   UpdateBegin(r, d, j))

\* C29: GetFanSpeeds returns 100 times the last-applied duty cycle of each
\* channel (0.5 and 0.75 give 50 and 75), changes neither the last-applied
\* values nor the enabled flag nor the devices, and while the display is
\* inside it the fan loop can still take its step.
C29_CurrentSpeeds ==
    /\ [][SpeedsCalled =>
             /\ speeds' = <<Frac(100 * lastCPUDC[1], lastCPUDC[2]),
                            Frac(100 * lastDiskDC[1], lastDiskDC[2])>>
             /\ (lastCPUDC = <<1, 2>> /\ lastDiskDC = <<3, 4>>
                   => speeds' = <<(<<50, 1>>), (<<75, 1>>)>>)
             /\ SpeedsFrame]_vars
    /\ [][SpeedsReturns => SpeedsFrame]_vars
    /\ [](dPc = "speeds" /\ ~cancelled => TickCanStep)

\* the display is inside GetFanSpeeds, which returned 50 % for the CPU
\* channel, while the fan loop is inside update
C29_Witness ==
    /\ dPc = "speeds"
    /\ speeds = <<(<<50, 1>>), (<<0, 1>>)>>
    /\ lastCPUDC = <<1, 2>>
    /\ fanPc = "apply"

InSection(t) ==
    \/ t = "fan" /\ fanPc = "apply"
    \/ t = "handler" /\ hPc = "toggle"
    \/ t = "display" /\ dPc = "speeds"

C9_MutualExclusion ==
    Cardinality({t \in {"fan", "handler", "display"} : InSection(t)}) <= 1

=============================================================================
